---- MODULE Spec2Model ----
(***************************************************************************)
(* A model of the aggregation and resilience core of research_assistant:   *)
(* SearchService (tiered web search, open-source fan-out, deduplication,   *)
(* enrichment), the POST /research pipeline with its five retry wrappers,  *)
(* and the bibliographic normalizers.                                      *)
(*                                                                         *)
(* Strings are sequences of one-character strings, so that template        *)
(* literals are concatenations and two different pairs of strings can      *)
(* concatenate to the same text.  Scores are in hundredths (0.95 is 95).   *)
(* A call that may throw yields [raised |-> BOOLEAN, value |-> ...].       *)
(***************************************************************************)
EXTENDS Integers, Sequences, FiniteSets, TLC

VARIABLES
    dd_pc, dd_in, dd_once, dd_twice,       \* removeDuplicates applied to a list
    nm_raw, nm_paper, nm_again,            \* raw provider records and their Papers
    s_pc,                                  \* position of one SearchService.search call
    s_query, s_num,                        \* its arguments query and numResults
    s_langKey, s_braveKey,                 \* LANGSEARCH_API_KEY, BRAVE_API_KEY present
    s_results,                             \* results, then finalResults
    s_enhanced,                            \* callbacks of enhanceSearchResults done
    s_via,                                 \* which tier supplied finalResults
    s_anyOk,                               \* some external call of search succeeded
    s_ret,                                 \* the list search returned
    s_calls,                               \* the provider calls it made, in order
    s_langMax,                             \* the largest payload LangSearch answers
    r_pc,                                  \* position of one POST /research request
    r_body, r_query,                       \* its body: readable or not, and the query
    r_groq, r_gemini, r_other,             \* GROQ / GOOGLE_GENERATIVE_AI keys; a
                                           \* googleSearch or openAlex credential
    r_attempt,                             \* attempt of the retry wrapper in progress
    r_stage,                               \* the stage last run: its attempts and outcome
    r_allFailed,                           \* no external call has succeeded so far
    r_searchResults,                       \* searchResults of POST
    r_resp,                                \* the HTTP response
    w_pc, w_stage, w_query, w_results,     \* one retry wrapper run on its own:
    w_attempt, w_calls, w_waits, w_ret,    \* stage, arguments, loop state, result
    p_pc, p_fn, p_in, p_out                \* one call of a function of the library:
                                           \* which function, its input, what it gave

ddvars == <<dd_pc, dd_in, dd_once, dd_twice>>
nmvars == <<nm_raw, nm_paper, nm_again>>
svars  == <<s_pc, s_query, s_num, s_langKey, s_braveKey, s_results, s_enhanced,
            s_via, s_anyOk, s_ret, s_calls, s_langMax>>
rvars  == <<r_pc, r_body, r_query, r_groq, r_gemini, r_other, r_attempt, r_stage,
            r_allFailed, r_searchResults, r_resp>>
wvars  == <<w_pc, w_stage, w_query, w_results, w_attempt, w_calls, w_waits, w_ret>>
pvars  == <<p_pc, p_fn, p_in, p_out>>
vars   == <<ddvars, nmvars, svars, rvars, wvars, pvars>>

(***************************************************************************)
(* Bounds of the model.                                                    *)
(***************************************************************************)
MaxList == 3        \* longest list handed to removeDuplicates
MaxPayload == 2     \* most results one keyed provider call returns
MaxEntries == 1     \* most results arXiv or PubMed returns
MaxRerank == 1      \* most entries a rerank response holds
MaxInds == 2        \* most positions one word of an inverted index has
MaxParamLen == 3    \* longest text of a page-size parameter
MaxHeld == 4        \* most records the arXiv archive holds for a query
MaxTotal == 203     \* most records the archive holds while it is paged through
MaxText == 5        \* most tokens in a generation provider's text

(***************************************************************************)
(* Strings.                                                                *)
(***************************************************************************)
\* s contains sub as a contiguous substring (String.prototype.includes)
Contains(s, sub) ==
    \E i \in 1..(Len(s) - Len(sub) + 1) : SubSeq(s, i, i + Len(sub) - 1) = sub

SeqsUpTo(S, n) == UNION { [1..k -> S] : k \in 0..n }

(***************************************************************************)
(* SearchService.removeDuplicates                                          *)
(***************************************************************************)
\* the composite key `${result.title}-${result.url}`
DedupKey(result) == result.title \o <<"-">> \o result.url

\* a key built by a buggy variant that forgets an earlier key once it has
\* dropped a duplicate of it  (seen.delete(key) in the duplicate branch)
RECURSIVE FilterForgetful(_, _)
FilterForgetful(results, seen) ==
    IF results = <<>> THEN <<>>
    ELSE LET r == Head(results)
             k == DedupKey(r)
         IN  IF k \in seen
             THEN FilterForgetful(Tail(results), seen \ {k})
             ELSE <<r>> \o FilterForgetful(Tail(results), seen \cup {k})

removeDuplicatesForgetful(results) == FilterForgetful(results, {})

\* results.filter(result => { if (seen.has(key)) return false; seen.add(key); return true })
RECURSIVE FilterSeen(_, _)
FilterSeen(results, seen) ==
    IF results = <<>> THEN <<>>
    ELSE LET r == Head(results)
             k == DedupKey(r)
         IN  IF k \in seen
             THEN FilterSeen(Tail(results), seen)
             ELSE <<r>> \o FilterSeen(Tail(results), seen \cup {k})

removeDuplicates(results) == FilterSeen(results, {})

\* The results the deduplication is exercised on: titles and urls that contain
\* the separator character, and a score that tells two occurrences apart.
DedupTitles == { <<"a">>, <<"a", "-">> }
DedupUrls   == { <<"b">>, <<"-", "b">> }
DedupScores == { 80, 90 }
DedupItems  == [title : DedupTitles, url : DedupUrls, score : DedupScores]

DedupInit ==
    /\ dd_pc = "input"
    /\ dd_in \in SeqsUpTo(DedupItems, MaxList)
    /\ dd_once = <<>>
    /\ dd_twice = <<>>

\* a caller applies removeDuplicates to the list
DedupApply ==
    /\ dd_pc = "input"
    /\ dd_once' = removeDuplicates(dd_in)
    /\ dd_pc' = "once"
    /\ UNCHANGED <<dd_in, dd_twice>>

\* and applies it again to the output
DedupReapply ==
    /\ dd_pc = "once"
    /\ dd_twice' = removeDuplicates(dd_once)
    /\ dd_pc' = "twice"
    /\ UNCHANGED <<dd_in, dd_once>>

DedupIdle ==
    /\ dd_pc = "idle"
    /\ dd_in = <<>>
    /\ dd_once = <<>>
    /\ dd_twice = <<>>

(***************************************************************************)
(* C7: removeDuplicates keeps, in input order, exactly the first           *)
(* occurrence of each distinct (title, url) pair: the i-th input result is *)
(* kept if and only if no earlier result has the identical title and the   *)
(* identical url.                                                          *)
(***************************************************************************)
SamePair(a, b) == a.title = b.title /\ a.url = b.url

FirstOfPair(list, i) == \A j \in 1..(i - 1) : ~SamePair(list[j], list[i])

RECURSIVE KeepFirstPairs(_, _)
KeepFirstPairs(list, i) ==
    IF i > Len(list) THEN <<>>
    ELSE (IF FirstOfPair(list, i) THEN <<list[i]>> ELSE <<>>)
             \o KeepFirstPairs(list, i + 1)

C7_DedupByExactPair ==
    dd_pc # "input" => dd_once = KeepFirstPairs(dd_in, 1)

(***************************************************************************)
(* C8: deduplication is idempotent: removeDuplicates applied to its own    *)
(* output returns that output, element for element and in the same order.  *)
(***************************************************************************)
C8_DedupIdempotent ==
    dd_pc = "twice" => dd_twice = dd_once

\* a list with a repeated pair has been deduplicated twice
C8_Witness ==
    /\ dd_pc = "twice"
    /\ Len(dd_once) < Len(dd_in)
    /\ Len(dd_once) >= 2

(***************************************************************************)
(* Provider normalizers (lib/normalizers).  Only the fields that decide    *)
(* Paper.id and Paper.doi are kept.  A missing (undefined) field and the   *)
(* empty string are both falsy in every test the normalizers make, and     *)
(* both are modelled by the empty sequence.                                *)
(***************************************************************************)
Absent == <<>>

Truthy(s) == s # Absent

\* a || b
OrElse(a, b) == IF Truthy(a) THEN a ELSE b

\* s.replace(/^https?:\/\/doi\.org\//, '')
StripDoiUrl(s) ==
    IF s # <<>> /\ Head(s) \in {"https://doi.org/", "http://doi.org/"}
    THEN Tail(s) ELSE s

\* `https://doi.org/${doi}`
DoiUrl(doi) == <<"https://doi.org/">> \o doi

normalizeOpenAlexWork(work) ==
    LET doi == OrElse(StripDoiUrl(work.doi), Absent)
    IN  [id |-> work.id, doi |-> doi, source |-> "openalex"]

normalizeCrossrefItem(item) ==
    LET doi   == OrElse(item.DOI, Absent)
        title == OrElse(item.title, <<"Untitled">>)
        url   == OrElse(item.URL, IF Truthy(doi) THEN DoiUrl(doi) ELSE Absent)
    IN  [id |-> IF Truthy(doi) THEN DoiUrl(doi) ELSE OrElse(url, title),
         doi |-> doi, source |-> "crossref"]

normalizeArxivEntry(entry) ==
    [id |-> entry.id, doi |-> Absent, source |-> "arxiv"]

normalizeEuropePmcItem(item) ==
    LET doi == OrElse(item.doi, Absent)
    IN  [id |-> IF Truthy(doi) THEN DoiUrl(doi)
                ELSE IF Truthy(item.id) THEN <<"europepmc:">> \o item.id
                ELSE OrElse(item.title, <<"unknown">>),
         doi |-> doi, source |-> "europepmc"]

Providers == {"openalex", "crossref", "arxiv", "europepmc"}

Normalize(provider, raw) ==
    CASE provider = "openalex"  -> normalizeOpenAlexWork(raw)
      [] provider = "crossref"  -> normalizeCrossrefItem(raw)
      [] provider = "arxiv"     -> normalizeArxivEntry(raw)
      [] provider = "europepmc" -> normalizeEuropePmcItem(raw)

\* Raw records as the providers send them.
Dois == { <<"10.1/x">>, <<"10.1/y">> }

OpenAlexWorks ==
    [id  : { <<"https://openalex.org/", "W1">>, <<"https://openalex.org/", "W2">> },
     doi : {Absent} \cup { DoiUrl(d) : d \in Dois }]

CrossrefItems ==
    [DOI   : {Absent} \cup Dois,
     URL   : {Absent, <<"http://dx.doi.org/", "10.1/x">>},
     title : {Absent, <<"T">>}]

ArxivEntries ==
    [id : {Absent, <<"http://arxiv.org/abs/", "2101.1">>,
                   <<"http://arxiv.org/abs/", "2101.2">>}]

EuropePmcItems ==
    [doi   : {Absent} \cup Dois,
     id    : {Absent, <<"PMC1">>},
     title : {Absent, <<"T">>}]

RawRecords(provider) ==
    CASE provider = "openalex"  -> OpenAlexWorks
      [] provider = "crossref"  -> CrossrefItems
      [] provider = "arxiv"     -> ArxivEntries
      [] provider = "europepmc" -> EuropePmcItems

NoPaper == [id |-> Absent, doi |-> Absent, source |-> "none"]

NormInit ==
    /\ nm_raw \in { f \in [Providers -> OpenAlexWorks \cup CrossrefItems
                                        \cup ArxivEntries \cup EuropePmcItems] :
                      \A p \in Providers : f[p] \in RawRecords(p) }
    /\ nm_paper = [p \in Providers |-> NoPaper]
    /\ nm_again = [p \in Providers |-> NoPaper]

\* the provider's response is normalized: every provider's record, each by
\* its own normalizer
NormalizeAll ==
    /\ \A p \in Providers : nm_paper[p] = NoPaper
    /\ nm_paper' = [p \in Providers |-> Normalize(p, nm_raw[p])]
    /\ UNCHANGED <<nm_raw, nm_again>>

\* the same unchanged payload is normalized by a repeated call
NormalizeAgain ==
    /\ \E p \in Providers : nm_paper[p] # NoPaper
    /\ \A p \in Providers : nm_again[p] = NoPaper
    /\ nm_again' = [p \in Providers |-> Normalize(p, nm_raw[p])]
    /\ UNCHANGED <<nm_raw, nm_paper>>

NormIdle ==
    /\ nm_raw = [p \in Providers |-> NoPaper]
    /\ nm_paper = [p \in Providers |-> NoPaper]
    /\ nm_again = [p \in Providers |-> NoPaper]

(***************************************************************************)
(* SearchService (lib/search-service).                                     *)
(*                                                                         *)
(* An external call is given to the operators as its outcome: "throw" (a   *)
(* network error), "notok" (a non-OK status), "malformed" (a payload whose *)
(* decoding or processing throws), or a payload.  A url is the sequence    *)
(* <<scheme, host, path...>>.                                              *)
(***************************************************************************)
Returned(v) == [raised |-> FALSE, value |-> v]
Thrown      == [raised |-> TRUE,  value |-> <<>>]

FailureKinds == {"throw", "notok", "malformed"}

\* encodeURIComponent: a space becomes %20, unreserved characters stay
EncodeChar(c) == IF c = " " THEN "%20" ELSE c
encodeURIComponent(str) == [i \in 1..Len(str) |-> EncodeChar(str[i])]

\* new URL(url).hostname
Hostname(url) == url[2]

\* the i-th page the web holds for a query, as the keyed providers report it
WebPage(i) ==
    [name |-> <<"W", ToString(i)>>,
     url  |-> <<"https://", "site" \o ToString(i) \o ".org", "/p">>,
     snippet |-> <<"about W", ToString(i)>>]

\* results.map((result, index) => ({ ..., score: 1 - index * 0.05 }))
\* of searchWithLangSearch, index counted from 0
LangResult(i) ==
    LET page == WebPage(i)
    IN  [title   |-> OrElse(page.name, <<"Untitled">>),
         url     |-> page.url,
         snippet |-> page.snippet,
         domain  |-> Hostname(page.url),
         score   |-> 100 - (i - 1) * 5]

\* searchWithLangSearch: every failure is turned into an empty list
searchWithLangSearch(out) ==
    IF out.kind \in FailureKinds \cup {"errcode"}
    THEN Returned(<<>>)
    ELSE Returned([i \in 1..out.n |-> LangResult(i)])

\* (data.web?.results || []).map(..., score: 0.8 - index * 0.05)
BraveResult(i) ==
    LET page == WebPage(i)
    IN  [title   |-> page.name,
         url     |-> page.url,
         snippet |-> page.snippet,
         domain  |-> Hostname(page.url),
         score   |-> 80 - (i - 1) * 5]

\* searchWithBrave: every failure is turned into an empty list
searchWithBrave(out) ==
    IF out.kind \in FailureKinds
    THEN Returned(<<>>)
    ELSE Returned([i \in 1..out.n |-> BraveResult(i)])

\* searchWithDuckDuckGo.  payload.abstract: "none" (no AbstractText), "bare"
\* (AbstractText alone) or "full" (with Heading, AbstractURL, AbstractSource);
\* payload.topics: the number of RelatedTopics with FirstURL and Text.
DdgUrl(query) == <<"https://", "duckduckgo.com", "/?q=">> \o encodeURIComponent(query)

DdgAbstract(query, kind) ==
    IF kind = "full"
    THEN [title |-> <<"Heading">>,
          url |-> <<"https://", "en.wikipedia.org", "/wiki/Heading">>,
          snippet |-> <<"AbstractText">>,
          domain |-> "Wikipedia",
          score |-> 90]
    ELSE [title |-> query,
          url |-> DdgUrl(query),
          snippet |-> <<"AbstractText">>,
          domain |-> "duckduckgo.com",
          score |-> 90]

DdgTopic(i) ==
    [title |-> <<"Topic", ToString(i)>>,
     url |-> <<"https://", "duckduckgo.com", "/", "Topic", ToString(i)>>,
     snippet |-> <<"Topic", ToString(i), " - text">>,
     domain |-> "duckduckgo.com",
     score |-> 80 - (i - 1) * 10]

searchWithDuckDuckGo(query, out) ==
    IF out.kind \in FailureKinds
    THEN Returned(<<>>)
    ELSE Returned((IF out.abstract = "none" THEN <<>>
                   ELSE <<DdgAbstract(query, out.abstract)>>)
                  \o [i \in 1..out.topics |-> DdgTopic(i)])

\* searchWithWikipedia: one result whenever the summary call answers OK
searchWithWikipedia(query, out) ==
    IF out.kind \in FailureKinds
    THEN Returned(<<>>)
    ELSE Returned(<<[title |-> IF out.titled THEN <<"WikiTitle">> ELSE query,
                     url |-> IF out.titled
                             THEN <<"https://", "en.wikipedia.org", "/wiki/WikiTitle">>
                             ELSE <<"https://", "en.wikipedia.org", "/wiki/">>
                                      \o encodeURIComponent(query),
                     snippet |-> IF out.titled THEN <<"extract">>
                                 ELSE <<"Wikipedia article about ">> \o query,
                     domain |-> "wikipedia.org",
                     score |-> 95]>>)

\* searchWithArXiv: up to 3 entries, score 0.9 - index * 0.1
ArxivResult(i) ==
    [title |-> <<"Preprint", ToString(i)>>,
     url |-> <<"http://", "arxiv.org", "/abs/", ToString(i)>>,
     snippet |-> <<"summary", ToString(i)>>,
     domain |-> "arxiv.org",
     score |-> 90 - (i - 1) * 10]

searchWithArXiv(query, out) ==
    IF out.kind \in FailureKinds
    THEN Returned(<<>>)
    ELSE Returned([i \in 1..out.n |-> ArxivResult(i)])

\* searchWithPubMed: one result per id whose summary call answers OK
PubMedResult(i) ==
    [title |-> <<"Article", ToString(i)>>,
     url |-> <<"https://", "pubmed.ncbi.nlm.nih.gov", "/", ToString(i), "/">>,
     snippet |-> <<"abstract", ToString(i)>>,
     domain |-> "pubmed.ncbi.nlm.nih.gov",
     score |-> 85]

searchWithPubMed(query, out) ==
    IF out.kind \in FailureKinds
    THEN Returned(<<>>)
    ELSE Returned([i \in 1..out.n |-> PubMedResult(i)])

\* SearchService.getEnhancedFallbackResults
ServiceFallbackResults(query) ==
    << [title |-> <<"Comprehensive Research on ">> \o query,
        url |-> <<"https://", "scholar.google.com", "/scholar?q=">>
                    \o encodeURIComponent(query),
        snippet |-> <<"Academic research and scholarly articles about ">> \o query,
        domain |-> "scholar.google.com",
        score |-> 95],
       [title |-> query \o <<": Latest Research and Developments">>,
        url |-> <<"https://", "arxiv.org", "/search/?query=">>
                    \o encodeURIComponent(query),
        snippet |-> <<"Recent preprints and research papers on ">> \o query,
        domain |-> "arxiv.org",
        score |-> 90],
       [title |-> query \o <<": Technical Documentation and Resources">>,
        url |-> <<"https://", "github.com", "/search?q=">>
                    \o encodeURIComponent(query),
        snippet |-> <<"Open source projects related to ">> \o query,
        domain |-> "github.com",
        score |-> 85] >>

\* Array.prototype.sort((a, b) => b.score - a.score): stable, descending
RECURSIVE InsertByScore(_, _)
InsertByScore(sorted, r) ==
    IF sorted = <<>> THEN <<r>>
    ELSE IF Head(sorted).score >= r.score
         THEN <<Head(sorted)>> \o InsertByScore(Tail(sorted), r)
         ELSE <<r>> \o sorted

RECURSIVE SortByScore(_)
SortByScore(list) ==
    IF list = <<>> THEN <<>>
    ELSE InsertByScore(SortByScore(SubSeq(list, 1, Len(list) - 1)), list[Len(list)])

\* allResults.forEach(result => { if (fulfilled && value.length > 0) push(...value) })
PushSettled(results, settled) ==
    IF ~settled.raised /\ Len(settled.value) > 0
    THEN results \o settled.value ELSE results

\* getRealSearchResults: Promise.allSettled over the four open sources, merge,
\* removeDuplicates, sort; the synthetic results only if the body throws
getRealSearchResults(query, ddg, wiki, arxiv, pubmed) ==
    LET merged == PushSettled(PushSettled(PushSettled(PushSettled(<<>>,
                      searchWithDuckDuckGo(query, ddg)),
                      searchWithWikipedia(query, wiki)),
                      searchWithArXiv(query, arxiv)),
                      searchWithPubMed(query, pubmed))
        body == Returned(SortByScore(removeDuplicates(merged)))
    IN  IF body.raised THEN ServiceFallbackResults(query) ELSE body.value

\* scrapeWebContent: null unless the page answers OK and has a body
NoContent == [found |-> FALSE, title |-> <<>>, snippet |-> <<>>]

\* "emptybody": a page whose body holds no text, so that snippet is ""
scrapeWebContent(out) ==
    IF out \in {"throw", "notok", "nobody"}
    THEN Returned(NoContent)
    ELSE Returned([found |-> TRUE,
                   title |-> <<"PageTitle">>,
                   snippet |-> IF out = "emptybody" THEN <<>> ELSE <<"body text">>])

\* the callback of enhanceSearchResults with neither its own try/catch nor
\* scrapeWebContent's: a failed fetch rejects the callback's promise
EnhanceCallbackUnguarded(result, out) ==
    IF out = "throw" THEN Thrown
    ELSE LET scraped == scrapeWebContent(out)
         IN  IF scraped.value.found
             THEN Returned([result EXCEPT
                      !.title = OrElse(scraped.value.title, result.title),
                      !.snippet = OrElse(scraped.value.snippet, result.snippet),
                      !.score = result.score + 10])
             ELSE Returned(result)

\* results.map(async (result) => { try { ... } catch { } return result })
EnhanceCallback(result, out) ==
    LET scraped == scrapeWebContent(out)
    IN  IF ~scraped.raised /\ scraped.value.found
        THEN Returned([result EXCEPT
                 !.title = OrElse(scraped.value.title, result.title),
                 !.snippet = OrElse(scraped.value.snippet, result.snippet),
                 !.score = result.score + 10])
        ELSE Returned(result)

\* Array.prototype.slice(0, n) for n >= 0
SliceTo(list, n) == SubSeq(list, 1, IF n < Len(list) THEN n ELSE Len(list))

\* The inputs and the outcomes of the external calls.
Queries == { <<"g">>, <<"g", " ", "b">> }

NumResultsChoices == {0, 1, 15}

\* the threshold below which Brave is asked as a backup
BraveThreshold == 5

\* LangSearch answers with up to MaxPayload pages, or with exactly largest
LangMaxChoices == {MaxPayload, BraveThreshold}

LangOutcomes(largest) ==
    [kind : FailureKinds \cup {"errcode"}]
        \cup [kind : {"ok"}, n : (0..MaxPayload) \cup {largest}]

BraveOutcomes == [kind : FailureKinds] \cup [kind : {"ok"}, n : 0..MaxPayload]

DdgOutcomes ==
    [kind : FailureKinds]
        \cup [kind : {"ok"}, abstract : {"none", "bare", "full"}, topics : 0..1]

WikiOutcomes == [kind : FailureKinds] \cup [kind : {"ok"}, titled : BOOLEAN]

ArxivOutcomes == [kind : FailureKinds] \cup [kind : {"ok"}, n : 0..MaxEntries]

PubMedOutcomes == [kind : FailureKinds] \cup [kind : {"ok"}, n : 0..MaxEntries]

FetchOutcomes == {"throw", "notok", "nobody", "page"}

\* one call of a provider tier: the count asked for, the results it gave
Call(to, count, returned) == [to |-> to, count |-> count, returned |-> returned]

SearchIdle ==
    /\ s_pc = "idle"
    /\ s_query = <<>>
    /\ s_num = 0
    /\ s_langKey = FALSE
    /\ s_braveKey = FALSE
    /\ s_results = <<>>
    /\ s_enhanced = <<>>
    /\ s_via = "none"
    /\ s_anyOk = FALSE
    /\ s_ret = <<>>
    /\ s_calls = <<>>
    /\ s_langMax = 0

\* a caller invokes search({query, numResults}) on a constructed service
SearchInit ==
    /\ s_pc = "lang"
    /\ s_query \in Queries
    /\ s_num \in NumResultsChoices
    /\ s_langKey \in BOOLEAN
    /\ s_braveKey \in BOOLEAN
    /\ s_results = <<>>
    /\ s_enhanced = <<>>
    /\ s_via = "none"
    /\ s_anyOk = FALSE
    /\ s_ret = <<>>
    /\ s_calls = <<>>
    /\ s_langMax \in LangMaxChoices

\* search, lines 112-119: LangSearch is configured and is called
SearchLangSearch ==
    /\ s_pc = "lang"
    /\ s_langKey
    /\ \E out \in LangOutcomes(s_langMax) :
          LET r == searchWithLangSearch(out)
          IN  /\ s_results' = IF r.raised THEN s_results ELSE s_results \o r.value
              /\ s_anyOk' = (s_anyOk \/ out.kind = "ok")
              /\ s_calls' = Append(s_calls, Call("langSearch", s_num, Len(r.value)))
    /\ s_pc' = "brave"
    /\ UNCHANGED <<s_query, s_num, s_langKey, s_braveKey, s_enhanced, s_via, s_ret,
                   s_langMax>>

\* search, lines 120-122: no LangSearch key
SearchLangSkipped ==
    /\ s_pc = "lang"
    /\ ~s_langKey
    /\ s_pc' = "brave"
    /\ UNCHANGED <<s_query, s_num, s_langKey, s_braveKey, s_results, s_enhanced,
                   s_via, s_anyOk, s_ret, s_calls, s_langMax>>

\* SearchBrave asked whenever a Brave key is configured
SearchBraveAlways ==
    /\ s_pc = "brave"
    /\ s_braveKey
    /\ \E out \in BraveOutcomes :
          LET r == searchWithBrave(out)
          IN  /\ s_results' = IF r.raised THEN s_results ELSE s_results \o r.value
              /\ s_anyOk' = (s_anyOk \/ out.kind = "ok")
              /\ s_calls' = Append(s_calls, Call("brave", s_num - Len(s_results),
                                                 Len(r.value)))
    /\ s_pc' = "final"
    /\ UNCHANGED <<s_query, s_num, s_langKey, s_braveKey, s_enhanced, s_via, s_ret,
                   s_langMax>>

\* search, lines 125-132: Brave is configured and fewer than 5 results so far
SearchBrave ==
    /\ s_pc = "brave"
    /\ s_braveKey /\ Len(s_results) < BraveThreshold
    /\ \E out \in BraveOutcomes :
          LET r == searchWithBrave(out)
          IN  /\ s_results' = IF r.raised THEN s_results ELSE s_results \o r.value
              /\ s_anyOk' = (s_anyOk \/ out.kind = "ok")
              /\ s_calls' = Append(s_calls, Call("brave", s_num - Len(s_results),
                                                 Len(r.value)))
    /\ s_pc' = "final"
    /\ UNCHANGED <<s_query, s_num, s_langKey, s_braveKey, s_enhanced, s_via, s_ret,
                   s_langMax>>

\* search, lines 133-135: Brave is not asked
SearchBraveSkipped ==
    /\ s_pc = "brave"
    /\ ~(s_braveKey /\ Len(s_results) < BraveThreshold)
    /\ s_pc' = "final"
    /\ UNCHANGED <<s_query, s_num, s_langKey, s_braveKey, s_results, s_enhanced,
                   s_via, s_anyOk, s_ret, s_calls, s_langMax>>

\* search, line 138, results.length > 0: the keyed tiers' results are final
SearchKeepResults ==
    /\ s_pc = "final"
    /\ Len(s_results) > 0
    /\ s_pc' = "enhance"
    /\ s_via' = "keyed"
    /\ UNCHANGED <<s_query, s_num, s_langKey, s_braveKey, s_results, s_enhanced,
                   s_anyOk, s_ret, s_calls, s_langMax>>

\* search, line 138, no results: await this.getRealSearchResults(query)
SearchOpenSources ==
    /\ s_pc = "final"
    /\ Len(s_results) = 0
    /\ \E ddg \in DdgOutcomes, wiki \in WikiOutcomes,
          arxiv \in ArxivOutcomes, pubmed \in PubMedOutcomes :
          /\ s_results' = getRealSearchResults(s_query, ddg, wiki, arxiv, pubmed)
          /\ s_anyOk' = (s_anyOk \/ "ok" \in {ddg.kind, wiki.kind, arxiv.kind,
                                               pubmed.kind})
          /\ s_calls' = Append(s_calls,
                 Call("open", 0,
                      Len(getRealSearchResults(s_query, ddg, wiki, arxiv, pubmed))))
    /\ s_pc' = "enhance"
    /\ s_via' = "open"
    /\ UNCHANGED <<s_query, s_num, s_langKey, s_braveKey, s_enhanced, s_ret, s_langMax>>

\* enhanceSearchResults: the callback of the next result settles; a rejected
\* callback rejects Promise.all and with it search
SearchEnhanceOne ==
    /\ s_pc = "enhance"
    /\ Len(s_enhanced) < Len(s_results)
    /\ \E out \in FetchOutcomes :
          LET r == EnhanceCallback(s_results[Len(s_enhanced) + 1], out)
          IN  /\ s_enhanced' = IF r.raised THEN s_enhanced
                               ELSE Append(s_enhanced, r.value)
              /\ s_pc' = IF r.raised THEN "raised" ELSE "enhance"
              /\ s_anyOk' = (s_anyOk \/ out = "page")
    /\ UNCHANGED <<s_query, s_num, s_langKey, s_braveKey, s_results, s_via, s_ret,
                   s_calls, s_langMax>>

\* search, line 140: return enhancedResults.slice(0, numResults)
SearchReturn ==
    /\ s_pc = "enhance"
    /\ Len(s_enhanced) = Len(s_results)
    /\ s_ret' = SliceTo(s_enhanced, s_num)
    /\ s_pc' = "done"
    /\ UNCHANGED <<s_query, s_num, s_langKey, s_braveKey, s_results, s_enhanced, s_via,
                   s_anyOk, s_calls, s_langMax>>

(***************************************************************************)
(* Math.max, Math.min and parseInt.  A text is a sequence of characters.   *)
(***************************************************************************)
MathMax(a, b) == IF a >= b THEN a ELSE b
MathMin(a, b) == IF a <= b THEN a ELSE b

Digits == {"0", "1", "2", "3", "4", "5", "6", "7", "8", "9"}

DigitValue(c) ==
    CASE c = "0" -> 0 [] c = "1" -> 1 [] c = "2" -> 2 [] c = "3" -> 3 [] c = "4" -> 4
      [] c = "5" -> 5 [] c = "6" -> 6 [] c = "7" -> 7 [] c = "8" -> 8 [] c = "9" -> 9

\* the number read from the leading digits of text, acc being what was read so far
RECURSIVE ReadDigits(_, _)
ReadDigits(text, acc) ==
    IF text = <<>> \/ Head(text) \notin Digits THEN acc
    ELSE ReadDigits(Tail(text), 10 * acc + DigitValue(Head(text)))

NaN == [nan |-> TRUE, n |-> 0]
Number(n) == [nan |-> FALSE, n |-> n]

\* parseInt(text, 10): an optional sign, then the longest run of digits;
\* NaN when there is no digit
parseInt(text) ==
    LET signed == text # <<>> /\ Head(text) \in {"-", "+"}
        body   == IF signed THEN Tail(text) ELSE text
    IN  IF body = <<>> \/ Head(body) \notin Digits THEN NaN
        ELSE IF signed /\ Head(text) = "-" THEN Number(0 - ReadDigits(body, 0))
        ELSE Number(ReadDigits(body, 0))

(***************************************************************************)
(* SearchService.rerankResults                                             *)
(***************************************************************************)
\* one entry of data.results: document.id as its text (the empty text: no
\* document or no id) and relevance_score (0: missing)
RerankEntries == [id : {<<"x">>, <<"0">>, <<"1">>}, rel : {0, 70}]

RerankOutcomes ==
    [kind : FailureKinds \cup {"errcode", "noresults"}]
        \cup [kind : {"ok"}, entries : SeqsUpTo(RerankEntries, MaxRerank)]

\* results[originalIndex] alone: an id that resolves to no candidate gives
\* undefined, and the spread of undefined is an object with a score only
OriginalResultUnchecked(results, id) ==
    LET originalIndex == parseInt(OrElse(id, <<"0">>))
    IN  IF ~originalIndex.nan /\ originalIndex.n \in 0..(Len(results) - 1)
        THEN results[originalIndex.n + 1]
        ELSE [score |-> 0]

\* originalIndex = Number.parseInt(result.document?.id || "0");
\* results[originalIndex] || results[0]
OriginalResult(results, id) ==
    LET originalIndex == parseInt(OrElse(id, <<"0">>))
    IN  IF ~originalIndex.nan /\ originalIndex.n \in 0..(Len(results) - 1)
        THEN results[originalIndex.n + 1]
        ELSE results[1]

rerankResults(langKey, results, topN, out) ==
    IF ~langKey \/ Len(results) = 0
    THEN Returned(SliceTo(results, topN))
    ELSE IF out.kind # "ok"
    THEN Returned(SliceTo(results, topN))
    ELSE Returned([i \in 1..Len(out.entries) |->
             [OriginalResult(results, out.entries[i].id) EXCEPT
                 !.score = IF out.entries[i].rel # 0 THEN out.entries[i].rel
                           ELSE 100 - (i - 1) * 10]])

(***************************************************************************)
(* APIChecker (app/api/research/route)                                     *)
(***************************************************************************)
\* getAvailableAI with the second provider forgotten
getAvailableAIGroqOnly(groq, gemini) ==
    IF groq THEN "groq" ELSE "null"

getAvailableAI(groq, gemini) ==
    IF groq THEN "groq" ELSE IF gemini THEN "gemini" ELSE "null"

\* getAvailableSearch with Brave preferred to LangSearch
getAvailableSearchBraveFirst(langSearch, brave, googleSearch, openAlex) ==
    IF brave THEN "brave"
    ELSE IF langSearch THEN "langSearch"
    ELSE IF googleSearch THEN "googleSearch"
    ELSE IF openAlex THEN "openAlex"
    ELSE "null"

getAvailableSearch(langSearch, brave, googleSearch, openAlex) ==
    IF langSearch THEN "langSearch"
    ELSE IF brave THEN "brave"
    ELSE IF googleSearch THEN "googleSearch"
    ELSE IF openAlex THEN "openAlex"
    ELSE "null"

(***************************************************************************)
(* The fallback producers of the route.                                    *)
(***************************************************************************)
\* getEnhancedFallbackResults of the route
RouteFallbackResults(query) ==
    << [title |-> <<"Comprehensive Analysis of ">> \o query
                      \o <<": Current Research and Applications">>,
        url |-> <<"https://", "scholar.google.com", "/scholar?q=">>
                    \o encodeURIComponent(query),
        snippet |-> <<"This comprehensive analysis examines the current state of ">>
                        \o query,
        domain |-> "scholar.google.com",
        score |-> 95],
       [title |-> query \o <<": Systematic Review and Meta-Analysis">>,
        url |-> <<"https://", "pubmed.ncbi.nlm.nih.gov", "/?term=">>
                    \o encodeURIComponent(query),
        snippet |-> <<"A systematic review examining ">> \o query,
        domain |-> "pubmed.ncbi.nlm.nih.gov",
        score |-> 92],
       [title |-> <<"Recent Advances in ">> \o query \o <<": A Technical Perspective">>,
        url |-> <<"https://", "arxiv.org", "/search/?query=">>
                    \o encodeURIComponent(query),
        snippet |-> <<"This technical paper discusses recent advances in ">> \o query,
        domain |-> "arxiv.org",
        score |-> 88] >>

\* generateFallbackSummary: the template filled with the query and one finding
\* and one source line per result
generateFallbackSummary(query, searchResults) ==
    [heading  |-> <<"# Research Summary: ">> \o query,
     findings |-> [i \in 1..Len(searchResults) |-> searchResults[i].title],
     sources  |-> [i \in 1..Len(searchResults) |-> searchResults[i].url]]

\* generateFallbackCitations: one citation per source, id cite-<i>
generateFallbackCitations(sources) ==
    [i \in 1..Len(sources) |->
        [id |-> <<"cite-", ToString(i)>>, title |-> sources[i].title,
         url |-> sources[i].url]]

\* extractInsightsFromSummary: the first sentences of the summary
extractInsightsFromSummary(summary) ==
    [sentencesOf |-> summary]

\* generateFallbackRelatedTopics
generateFallbackRelatedTopics(query) ==
    << <<"Advanced ">> \o query \o <<" techniques">>,
       <<"Emerging trends in ">> \o query,
       <<"Applications of ">> \o query,
       <<"Future directions in ">> \o query,
       <<"Methodologies for ">> \o query,
       <<"Comparative studies on ">> \o query,
       <<"Theoretical foundations of ">> \o query,
       <<"Case studies in ">> \o query >>

Stages == {"search", "summary", "citations", "insights", "topics"}

\* what each wrapper returns when it gives up, from the wrapper's arguments
FallbackOutput(stage, query, searchResults) ==
    CASE stage = "search"    -> RouteFallbackResults(query)
      [] stage = "summary"   -> generateFallbackSummary(query, searchResults)
      [] stage = "citations" -> generateFallbackCitations(searchResults)
      [] stage = "insights"  ->
             extractInsightsFromSummary(generateFallbackSummary(query, searchResults))
      [] stage = "topics"    -> generateFallbackRelatedTopics(query)

(***************************************************************************)
(* The five retry wrappers: performWebSearchWithRetry,                     *)
(* generateSummaryWithRetry, generateCitationsWithRetry,                   *)
(* extractInsightsWithRetry, generateRelatedTopicsWithRetry.  They are the *)
(* same loop around five stage functions and five fallback producers.      *)
(***************************************************************************)
maxRetries == 3

RECURSIVE Pow2(_)
Pow2(n) == IF n = 0 THEN 1 ELSE 2 * Pow2(n - 1)

\* the loop body with the give-up test one attempt early
\* (attempt === maxRetries - 1)
RetryStepGivesUpEarly(attempt, stageResult, fallbackOutput) ==
    IF ~stageResult.raised
    THEN [done |-> TRUE, value |-> stageResult.value, fallback |-> FALSE,
          next |-> attempt, wait |-> 0]
    ELSE IF attempt >= maxRetries - 1
    THEN [done |-> TRUE, value |-> fallbackOutput, fallback |-> TRUE,
          next |-> attempt, wait |-> 0]
    ELSE [done |-> FALSE, value |-> <<>>, fallback |-> FALSE,
          next |-> attempt + 1, wait |-> Pow2(attempt) * 1000]

\* the loop body with the backoff counted from 2^0
RetryStepBackoffFromZero(attempt, stageResult, fallbackOutput) ==
    IF ~stageResult.raised
    THEN [done |-> TRUE, value |-> stageResult.value, fallback |-> FALSE,
          next |-> attempt, wait |-> 0]
    ELSE IF attempt = maxRetries
    THEN [done |-> TRUE, value |-> fallbackOutput, fallback |-> TRUE,
          next |-> attempt, wait |-> 0]
    ELSE [done |-> FALSE, value |-> <<>>, fallback |-> FALSE,
          next |-> attempt + 1, wait |-> Pow2(attempt - 1) * 1000]

\* one pass of  for (attempt = 1; attempt <= maxRetries; attempt++) { try {
\* return await stage(...) } catch { if (attempt === maxRetries) return
\* fallback(...); await setTimeout(2^attempt * 1000) } }
RetryStep(attempt, stageResult, fallbackOutput) ==
    IF ~stageResult.raised
    THEN [done |-> TRUE, value |-> stageResult.value, fallback |-> FALSE,
          next |-> attempt, wait |-> 0]
    ELSE IF attempt = maxRetries
    THEN [done |-> TRUE, value |-> fallbackOutput, fallback |-> TRUE,
          next |-> attempt, wait |-> 0]
    ELSE [done |-> FALSE, value |-> <<>>, fallback |-> FALSE,
          next |-> attempt + 1, wait |-> Pow2(attempt) * 1000]

\* A wrapper run on its own, around a stage function of which each invocation
\* either returns a value or throws.
StageSuccess(stage, attempt) == [returnedBy |-> stage, onAttempt |-> attempt]

WrapperResultArgs == { <<>>, <<LangResult(1)>>, <<LangResult(1), BraveResult(2)>> }

NoReturn == [value |-> <<>>, fallback |-> FALSE]

WrapperIdle ==
    /\ w_pc = "idle"
    /\ w_stage = "none"
    /\ w_query = <<>>
    /\ w_results = <<>>
    /\ w_attempt = 0
    /\ w_calls = <<>>
    /\ w_waits = <<>>
    /\ w_ret = NoReturn

WrapperInit ==
    /\ w_pc = "attempt"
    /\ w_stage \in Stages
    /\ w_query \in Queries
    /\ w_results \in WrapperResultArgs
    /\ w_attempt = 1
    /\ w_calls = <<>>
    /\ w_waits = <<>>
    /\ w_ret = NoReturn

\* the try block: the stage function is invoked and returns or throws
WrapperAttempt ==
    /\ w_pc = "attempt"
    /\ w_attempt <= maxRetries
    /\ \E outcome \in {"return", "throw"} :
          LET res  == IF outcome = "throw" THEN Thrown
                      ELSE Returned(StageSuccess(w_stage, w_attempt))
              step == RetryStep(w_attempt, res,
                                FallbackOutput(w_stage, w_query, w_results))
          IN  /\ w_calls' = Append(w_calls, outcome)
              /\ w_pc' = IF step.done THEN "returned" ELSE "backoff"
              /\ w_ret' = IF step.done
                          THEN [value |-> step.value, fallback |-> step.fallback]
                          ELSE w_ret
              /\ w_waits' = IF step.done THEN w_waits ELSE Append(w_waits, step.wait)
              /\ w_attempt' = step.next
    /\ UNCHANGED <<w_stage, w_query, w_results>>

\* the timer of the backoff fires and the loop goes on
WrapperBackoffOver ==
    /\ w_pc = "backoff"
    /\ w_pc' = "attempt"
    /\ UNCHANGED <<w_stage, w_query, w_results, w_attempt, w_calls, w_waits, w_ret>>

(***************************************************************************)
(* The stage functions of the route.  Each catches every failure of its    *)
(* provider call itself and returns its fallback producer's output.        *)
(***************************************************************************)
TextOutcomes  == {"throw", "text"}
ArrayOutcomes == {"throw", "noarray", "badjson", "array"}

\* generateSummary, by the outcome of generateText
generateSummary(out) ==
    IF out = "throw" THEN Returned("fallback") ELSE Returned("generated")

\* generateCitations: no [...] in the text, or JSON.parse throwing, or the
\* provider call throwing, all end in generateFallbackCitations
generateCitations(out) ==
    IF out = "array" THEN Returned("generated") ELSE Returned("fallback")

\* extractInsights
extractInsights(out) ==
    IF out = "array" THEN Returned("generated") ELSE Returned("fallback")

\* generateRelatedTopics
generateRelatedTopics(out) ==
    IF out = "array" THEN Returned("generated") ELSE Returned("fallback")

\* numResults and topN as performWebSearch passes them
RouteNumResults == 15
RerankTopN == 10

\* performWebSearch after searchService.search has settled
performWebSearch(query, searchRaised, initialResults, langSearch, rerankOut) ==
    IF searchRaised
    THEN Returned(RouteFallbackResults(query))
    ELSE IF langSearch /\ Len(initialResults) > 0
    THEN LET reranked == rerankResults(langSearch, initialResults, RerankTopN, rerankOut)
         IN  IF reranked.raised THEN Returned(SliceTo(initialResults, RerankTopN))
             ELSE reranked
    ELSE Returned(SliceTo(initialResults, RerankTopN))

(***************************************************************************)
(* POST /research                                                          *)
(***************************************************************************)
NoStage == [stage |-> "none", log |-> <<>>, outcome |-> "none"]

\* the credentials a process is started with: GROQ_API_KEY,
\* GOOGLE_GENERATIVE_AI_API_KEY, LANGSEARCH_API_KEY, BRAVE_API_KEY, and a
\* Google search or OpenAlex credential
CredentialSet(groq, gemini, langSearch, brave, other) ==
    [groq |-> groq, gemini |-> gemini, langSearch |-> langSearch, brave |-> brave,
     other |-> other]

CredentialSets ==
    { CredentialSet(FALSE, FALSE, FALSE, FALSE, "none"),
      CredentialSet(FALSE, FALSE, TRUE, FALSE, "none"),
      CredentialSet(TRUE, FALSE, FALSE, FALSE, "none"),
      CredentialSet(FALSE, TRUE, FALSE, FALSE, "none"),
      CredentialSet(TRUE, TRUE, TRUE, FALSE, "none"),
      CredentialSet(TRUE, FALSE, FALSE, TRUE, "none"),
      CredentialSet(FALSE, TRUE, TRUE, TRUE, "none"),
      CredentialSet(TRUE, FALSE, FALSE, FALSE, "googleSearch"),
      CredentialSet(FALSE, TRUE, FALSE, FALSE, "openAlex") }

NoResponse == [status |-> 0, usedSearch |-> "none", sources |-> <<>>, error |-> "none"]

ResearchIdle ==
    /\ r_pc = "idle"
    /\ r_body = "none"
    /\ r_query = <<>>
    /\ r_groq = FALSE
    /\ r_gemini = FALSE
    /\ r_other = "none"
    /\ r_attempt = 0
    /\ r_stage = NoStage
    /\ r_allFailed = TRUE
    /\ r_searchResults = <<>>
    /\ r_resp = NoResponse

\* a request arrives at a process with some set of credentials configured
ResearchInit ==
    /\ r_pc = "received"
    /\ \/ r_body = "json" /\ r_query \in Queries
       \/ r_body = "unreadable" /\ r_query = <<>>
    /\ \E c \in CredentialSets :
          /\ r_groq = c.groq
          /\ r_gemini = c.gemini
          /\ r_other = c.other
          /\ s_langKey = c.langSearch
          /\ s_braveKey = c.brave
    /\ r_attempt = 0
    /\ r_stage = NoStage
    /\ r_allFailed = TRUE
    /\ r_searchResults = <<>>
    /\ r_resp = NoResponse
    /\ s_pc = "idle"
    /\ s_query = <<>>
    /\ s_num = 0
    /\ s_results = <<>>
    /\ s_enhanced = <<>>
    /\ s_via = "none"
    /\ s_anyOk = FALSE
    /\ s_ret = <<>>
    /\ s_calls = <<>>
    /\ s_langMax = MaxPayload

\* POST, line 85: request.json() throws; the catch at line 135 answers 500
ResearchBodyUnreadable ==
    /\ r_pc = "received"
    /\ r_body = "unreadable"
    /\ r_resp' = [NoResponse EXCEPT !.status = 500, !.error = "Research failed"]
    /\ r_pc' = "done"
    /\ UNCHANGED <<r_body, r_query, r_groq, r_gemini, r_other, r_attempt, r_stage,
                   r_allFailed, r_searchResults>>

\* POST, lines 89-95: no AI model available
ResearchNoAI ==
    /\ r_pc = "received"
    /\ r_body = "json"
    /\ getAvailableAI(r_groq, r_gemini) = "null"
    /\ r_resp' = [NoResponse EXCEPT !.status = 500, !.error = "No AI models available"]
    /\ r_pc' = "done"
    /\ UNCHANGED <<r_body, r_query, r_groq, r_gemini, r_other, r_attempt, r_stage,
                   r_allFailed, r_searchResults>>

\* POST, line 98: performWebSearchWithRetry starts its first attempt
ResearchAccepted ==
    /\ r_pc = "received"
    /\ r_body = "json"
    /\ getAvailableAI(r_groq, r_gemini) # "null"
    /\ r_pc' = "search"
    /\ r_attempt' = 1
    /\ UNCHANGED <<r_body, r_query, r_groq, r_gemini, r_other, r_stage, r_allFailed,
                   r_searchResults, r_resp>>

\* performWebSearch, lines 148-157: a SearchService is constructed and
\* search({query, numResults: 15}) is called
PerformWebSearchCall ==
    /\ r_pc = "search"
    /\ s_pc = "idle"
    /\ s_pc' = "lang"
    /\ s_query' = r_query
    /\ s_num' = RouteNumResults
    /\ s_results' = <<>>
    /\ s_enhanced' = <<>>
    /\ s_via' = "none"
    /\ s_anyOk' = FALSE
    /\ s_ret' = <<>>
    /\ s_calls' = <<>>
    /\ r_pc' = "searching"
    /\ UNCHANGED <<s_langKey, s_braveKey, s_langMax>>
    /\ UNCHANGED <<r_body, r_query, r_groq, r_gemini, r_other, r_attempt, r_stage,
                   r_allFailed, r_searchResults, r_resp>>

\* performWebSearch, lines 159-174, and the wrapper's loop body around it:
\* search has settled; the results are reranked when LangSearch is available
PerformWebSearchSettled ==
    /\ r_pc = "searching"
    /\ s_pc \in {"done", "raised"}
    /\ \E rerankOut \in RerankOutcomes :
          LET res  == performWebSearch(r_query, s_pc = "raised", s_ret, s_langKey,
                                       rerankOut)
              step == RetryStep(r_attempt, res, RouteFallbackResults(r_query))
              cameFromFallback == s_pc = "raised"
          IN  /\ r_stage' =
                    [stage |-> "search",
                     log |-> Append(IF r_stage.stage = "search" THEN r_stage.log
                                    ELSE <<>>,
                                    IF s_anyOk THEN "ok" ELSE "failed"),
                     outcome |-> IF ~step.done THEN "none"
                                 ELSE IF step.fallback \/ cameFromFallback
                                      THEN "fallback" ELSE "value"]
              /\ r_allFailed' = (r_allFailed /\ ~s_anyOk)
              /\ r_searchResults' = IF step.done THEN step.value ELSE r_searchResults
              /\ r_pc' = IF step.done THEN "summary" ELSE "search"
              /\ r_attempt' = IF step.done THEN 1 ELSE step.next
    /\ s_pc' = "idle"
    /\ s_query' = <<>>
    /\ s_num' = 0
    /\ s_results' = <<>>
    /\ s_enhanced' = <<>>
    /\ s_via' = "none"
    /\ s_anyOk' = FALSE
    /\ s_ret' = <<>>
    /\ s_calls' = <<>>
    /\ UNCHANGED <<s_langKey, s_braveKey, s_langMax>>
    /\ UNCHANGED <<r_body, r_query, r_groq, r_gemini, r_other, r_resp>>

\* one pass of a generation wrapper: the stage function runs (its provider
\* call has outcome out) and the wrapper's loop body acts on its result
GenerationPass(stage, nextPc, res, failed) ==
    LET step == RetryStep(r_attempt, res,
                          FallbackOutput(stage, r_query, r_searchResults))
    IN  /\ r_pc = stage
        /\ r_stage' =
              [stage |-> stage,
               log |-> Append(IF r_stage.stage = stage THEN r_stage.log ELSE <<>>,
                              IF failed THEN "failed" ELSE "ok"),
               outcome |-> IF ~step.done THEN "none"
                           ELSE IF step.fallback \/ step.value = "fallback"
                                THEN "fallback" ELSE "value"]
        /\ r_allFailed' = (r_allFailed /\ failed)
        /\ r_pc' = IF step.done THEN nextPc ELSE stage
        /\ r_attempt' = IF step.done THEN 1 ELSE step.next
        /\ UNCHANGED <<r_body, r_query, r_groq, r_gemini, r_other, r_searchResults,
                       r_resp>>

\* POST, line 101
GenerateSummaryWithRetry ==
    \E out \in TextOutcomes :
        GenerationPass("summary", "citations", generateSummary(out), out # "text")

\* POST, line 104
GenerateCitationsWithRetry ==
    \E out \in ArrayOutcomes :
        GenerationPass("citations", "insights", generateCitations(out), out # "array")

\* POST, line 107
ExtractInsightsWithRetry ==
    \E out \in ArrayOutcomes :
        GenerationPass("insights", "topics", extractInsights(out), out # "array")

\* POST, line 110
GenerateRelatedTopicsWithRetry ==
    \E out \in ArrayOutcomes :
        GenerationPass("topics", "respond", generateRelatedTopics(out), out # "array")

\* sources: searchResults.map(...)
ResponseSources(searchResults) ==
    [i \in 1..Len(searchResults) |->
        [title |-> searchResults[i].title,
         url |-> searchResults[i].url,
         snippet |-> searchResults[i].snippet,
         relevance |-> searchResults[i].score]]

\* POST, lines 112-134: the 200 response
ResearchRespond ==
    /\ r_pc = "respond"
    /\ r_resp' =
          [status |-> 200,
           usedSearch |->
               LET used == getAvailableSearch(s_langKey, s_braveKey,
                               r_other = "googleSearch", r_other = "openAlex")
               IN  IF used = "null" THEN "fallback" ELSE used,
           sources |-> ResponseSources(r_searchResults),
           error |-> "none"]
    /\ r_pc' = "done"
    /\ UNCHANGED <<r_body, r_query, r_groq, r_gemini, r_other, r_attempt, r_stage,
                   r_allFailed, r_searchResults>>

(***************************************************************************)
(* Single calls of library functions: p_fn names the function, p_in is its *)
(* input, p_out what the call gave.                                        *)
(***************************************************************************)
NoOutput == [raised |-> FALSE, value |-> <<>>]

PureIdle ==
    /\ p_pc = "idle"
    /\ p_fn = "none"
    /\ p_in = <<>>
    /\ p_out = NoOutput

(***************************************************************************)
(* reconstructAbstractFromInvertedIndex (lib/normalizers).  An inverted    *)
(* index is given as the list Object.entries yields: one [word, inds] per  *)
(* key, keys distinct.  A text is the sequence of its words and the single *)
(* spaces between them.                                                    *)
(***************************************************************************)
\* positions.push({pos, word}) for each word, for each of its positions
RECURSIVE CollectPositions(_)
CollectPositions(entries) ==
    IF entries = <<>> THEN <<>>
    ELSE [i \in 1..Len(Head(entries).inds) |->
             [pos |-> Head(entries).inds[i], word |-> Head(entries).word]]
         \o CollectPositions(Tail(entries))

\* Array.prototype.sort with (a, b) => a.pos - b.pos: ascending, and stable
RECURSIVE InsertByPos(_, _)
InsertByPos(sorted, item) ==
    IF sorted = <<>> THEN <<item>>
    ELSE IF Head(sorted).pos <= item.pos
    THEN <<Head(sorted)>> \o InsertByPos(Tail(sorted), item)
    ELSE <<item>> \o sorted

\* the pairs left in the order in which they were collected
SortByPosSkipped(positions) ==
    positions

RECURSIVE SortByPos(_)
SortByPos(positions) ==
    IF positions = <<>> THEN <<>>
    ELSE InsertByPos(SortByPos(SubSeq(positions, 1, Len(positions) - 1)),
                     positions[Len(positions)])

\* Array.prototype.join(' ')
RECURSIVE JoinWithSpace(_)
JoinWithSpace(words) ==
    IF words = <<>> THEN <<>>
    ELSE IF Len(words) = 1 THEN words
    ELSE <<Head(words), " ">> \o JoinWithSpace(Tail(words))

Undefined == [defined |-> FALSE, text |-> <<>>]

reconstructAbstractFromInvertedIndex(index) ==
    IF ~index.present THEN Undefined
    ELSE LET positions == SortByPos(CollectPositions(index.entries))
         IN  [defined |-> TRUE,
              text |-> JoinWithSpace([i \in 1..Len(positions) |-> positions[i].word])]

IndexWords == {"A", "quick", "brown"}

IndexPositions == 0..(Cardinality(IndexWords) - 1)

\* the entries of an index: distinct words, each with up to MaxInds positions
KeyOrders ==
    { ws \in SeqsUpTo(IndexWords, Cardinality(IndexWords)) :
        \A i, j \in 1..Len(ws) : i # j => ws[i] # ws[j] }

IndexInds == SeqsUpTo(IndexPositions, MaxInds)

\* an index: distinct words in some order, each with up to MaxInds positions
IndexOf(ws, f) ==
    [present |-> TRUE,
     entries |-> [i \in 1..Len(ws) |-> [word |-> ws[i], inds |-> f[i]]]]

NoIndex == [present |-> FALSE, entries |-> <<>>]

ReconstructInit ==
    /\ p_pc = "call"
    /\ p_fn = "reconstructAbstractFromInvertedIndex"
    /\ \/ p_in = NoIndex
       \/ \E ws \in KeyOrders : \E f \in [1..Len(ws) -> IndexInds] :
             p_in = IndexOf(ws, f)
    /\ p_out = NoOutput

ReconstructApply ==
    /\ p_pc = "call"
    /\ p_fn = "reconstructAbstractFromInvertedIndex"
    /\ p_out' = Returned(reconstructAbstractFromInvertedIndex(p_in))
    /\ p_pc' = "done"
    /\ UNCHANGED <<p_fn, p_in>>

(***************************************************************************)
(* Page sizes of the works endpoints (app/api/*/works/route) and of the    *)
(* provider clients (lib/openalex, lib/crossref, lib/arxiv,                *)
(* lib/europepmc).  A query parameter is its text, a sequence of           *)
(* characters; a missing parameter and the empty text are both falsy and   *)
(* are both the empty sequence.                                            *)
(***************************************************************************)
DefaultPageSize == 25

\* the largest page size the code sends each provider
ProviderMaxPageSize(provider) ==
    IF provider = "europepmc" THEN 100 ELSE 200

\* GET: param ? Math.min(max, Math.max(1, parseInt(param, 10) || 25)) : 25
RoutePageSize(provider, param) ==
    IF ~Truthy(param) THEN DefaultPageSize
    ELSE LET parsed == parseInt(param)
             n == IF parsed.nan \/ parsed.n = 0 THEN DefaultPageSize ELSE parsed.n
         IN  MathMin(ProviderMaxPageSize(provider), MathMax(1, n))

\* searchService.openAlexWorksSearch / crossrefWorks / arxivWorks /
\* europePmcWorks: hands the options to the provider client
WorksFacade(options) ==
    options

NotGiven == [given |-> FALSE, n |-> 0]
Given(n) == [given |-> TRUE, n |-> n]

\* the client sending the page size it was given
ClientPageSizeAsGiven(provider, size) ==
    IF size.given THEN size.n ELSE DefaultPageSize

\* the client: { perPage = 25 } = params, then
\* String(Math.max(1, Math.min(perPage, max))) as the provider's parameter
ClientPageSize(provider, size) ==
    LET perPage == IF size.given THEN size.n ELSE DefaultPageSize
    IN  MathMax(1, MathMin(perPage, ProviderMaxPageSize(provider)))

PageSizeChars == {"-", "0", "1", "3", "x"}

PageSizeParams == SeqsUpTo(PageSizeChars, MaxParamLen)

ClientPageSizes == {NotGiven} \cup { Given(n) : n \in {-3, 0, 1, 25, 100, 101, 200, 201, 300} }

PageSizeInit ==
    /\ p_pc = "call"
    /\ \/ p_fn = "route" /\ p_in \in [provider : Providers, param : PageSizeParams]
       \/ p_fn = "client" /\ p_in \in [provider : Providers, size : ClientPageSizes]
    /\ p_out = NoOutput

\* GET /api/<provider>/works?...: the route, the facade and the client
WorksRouteGet ==
    /\ p_pc = "call"
    /\ p_fn = "route"
    /\ LET options == WorksFacade(Given(RoutePageSize(p_in.provider, p_in.param)))
       IN  p_out' = Returned(ClientPageSize(p_in.provider, options))
    /\ p_pc' = "done"
    /\ UNCHANGED <<p_fn, p_in>>

\* a provider client called with a page size of its caller's choosing
WorksClientSearch ==
    /\ p_pc = "call"
    /\ p_fn = "client"
    /\ p_out' = Returned(ClientPageSize(p_in.provider, p_in.size))
    /\ p_pc' = "done"
    /\ UNCHANGED <<p_fn, p_in>>

(***************************************************************************)
(* The arXiv client (lib/arxiv) and normalizeArxivResponse.  The archive   *)
(* holds records 0..held-1; asked for max_results records from start it    *)
(* answers with the records start..start+max_results-1 that exist, and     *)
(* reports the number it holds in opensearch:totalResults, or reports no   *)
(* total.                                                                  *)
(***************************************************************************)
DigitChar(d) ==
    CASE d = 0 -> "0" [] d = 1 -> "1" [] d = 2 -> "2" [] d = 3 -> "3" [] d = 4 -> "4"
      [] d = 5 -> "5" [] d = 6 -> "6" [] d = 7 -> "7" [] d = 8 -> "8" [] d = 9 -> "9"

RECURSIVE DecimalDigits(_)
DecimalDigits(n) ==
    IF n < 10 THEN <<DigitChar(n)>>
    ELSE DecimalDigits(n \div 10) \o <<DigitChar(n % 10)>>

\* String(n) of an integer
String(n) ==
    IF n < 0 THEN <<"-">> \o DecimalDigits(0 - n) ELSE DecimalDigits(n)

NullCursor == [isNull |-> TRUE, text |-> <<>>]
Cursor(text) == [isNull |-> FALSE, text |-> text]

\* what the archive answers to ?start=..&max_results=..
ArxivFeed(held, reportsTotal, sentStart, sentMax) ==
    LET upTo == MathMin(held, sentStart + sentMax)
        n    == MathMax(0, upTo - sentStart)
    IN  [entries |-> [i \in 1..n |-> [id |-> <<"http://arxiv.org/abs/">>
                                               \o String(sentStart + i - 1)]],
         total |-> IF reportsTotal THEN Given(held) ELSE NotGiven]

normalizeArxivResponse(entries, total, start, perPage) ==
    [papers |-> [i \in 1..Len(entries) |-> normalizeArxivEntry(entries[i])],
     nextCursor |-> IF total.given /\ start + Len(entries) < total.n
                    THEN Cursor(String(start + perPage))
                    ELSE NullCursor,
     totalCount |-> total]

\* arxivSearch: the request is built from the clamped start and maxResults,
\* the response is normalized with start and maxResults as they were given
arxivSearch(startArg, maxResultsArg, held, reportsTotal) ==
    LET start      == IF startArg.given THEN startArg.n ELSE 0
        maxResults == IF maxResultsArg.given THEN maxResultsArg.n ELSE DefaultPageSize
        sentStart  == MathMax(0, start)
        sentMax    == ClientPageSize("arxiv", maxResultsArg)
        feed       == ArxivFeed(held, reportsTotal, sentStart, sentMax)
    IN  [sentStart |-> sentStart,
         sentMax   |-> sentMax,
         page      |-> normalizeArxivResponse(feed.entries, feed.total, start,
                                              maxResults)]

ArxivStarts == {NotGiven} \cup { Given(n) : n \in -2..MaxHeld }

ArxivMaxResults == {NotGiven} \cup { Given(n) : n \in 0..MaxHeld }

ArxivSearchInit ==
    /\ p_pc = "call"
    /\ p_fn = "arxivSearch"
    /\ p_in \in [start : ArxivStarts, maxResults : ArxivMaxResults,
                 held : 0..MaxHeld, reportsTotal : BOOLEAN]
    /\ p_out = NoOutput

\* one call of arxivSearch whose fetch succeeds
ArxivSearchCall ==
    /\ p_pc = "call"
    /\ p_fn = "arxivSearch"
    /\ p_out' = Returned(arxivSearch(p_in.start, p_in.maxResults, p_in.held,
                                     p_in.reportsTotal))
    /\ p_pc' = "done"
    /\ UNCHANGED <<p_fn, p_in>>

(***************************************************************************)
(* Extraction of the JSON array from a generation provider's text          *)
(* (generateCitations, extractInsights, generateRelatedTopics).  A text is *)
(* a sequence of tokens: "[", "]", ",", a string literal "L", and "p", a   *)
(* piece of prose that is no JSON.                                         *)
(***************************************************************************)
Positions(text, c) == { i \in 1..Len(text) : text[i] = c }

SetMin(S) == CHOOSE x \in S : \A y \in S : x <= y
SetMax(S) == CHOOSE x \in S : \A y \in S : x >= y

NoMatch == [matched |-> FALSE, text |-> <<>>]

\* text.match(/\[[\s\S]*\]/): from the leftmost "[" that has a "]" after it
\* to the last "]" of the text
MatchArray(text) ==
    LET opens  == Positions(text, "[")
        closes == Positions(text, "]")
    IN  IF opens = {} \/ closes = {} \/ SetMin(opens) > SetMax(closes) THEN NoMatch
        ELSE [matched |-> TRUE, text |-> SubSeq(text, SetMin(opens), SetMax(closes))]

JsonString == [kind |-> "string"]
JsonArray(items) == [kind |-> "array", items |-> items]
ParseFailed == [ok |-> FALSE, value |-> JsonString, next |-> 0]
Parsed(v, next) == [ok |-> TRUE, value |-> v, next |-> next]

\* a JSON value read from t at position i: a string literal, or an array of
\* values separated by commas
RECURSIVE ParseValue(_, _)
RECURSIVE ParseElements(_, _, _)
ParseValue(t, i) ==
    IF i > Len(t) THEN ParseFailed
    ELSE IF t[i] = "L" THEN Parsed(JsonString, i + 1)
    ELSE IF t[i] = "["
    THEN IF i + 1 <= Len(t) /\ t[i + 1] = "]" THEN Parsed(JsonArray(<<>>), i + 2)
         ELSE ParseElements(t, i + 1, <<>>)
    ELSE ParseFailed

ParseElements(t, i, acc) ==
    LET v == ParseValue(t, i)
    IN  IF ~v.ok \/ v.next > Len(t) THEN ParseFailed
        ELSE IF t[v.next] = "," THEN ParseElements(t, v.next + 1, Append(acc, v.value))
        ELSE IF t[v.next] = "]" THEN Parsed(JsonArray(Append(acc, v.value)), v.next + 1)
        ELSE ParseFailed

\* JSON.parse: throws unless the whole text is one value
JSONparse(t) ==
    LET v == ParseValue(t, 1)
    IN  IF v.ok /\ v.next = Len(t) + 1 THEN Returned(v.value) ELSE Thrown

NoArray == [found |-> FALSE, parsed |-> Thrown]

\* const jsonMatch = text.match(...); if (jsonMatch) { JSON.parse(jsonMatch[0]) ... }
ExtractJsonArray(text) ==
    LET jsonMatch == MatchArray(text)
    IN  IF jsonMatch.matched
        THEN [found |-> TRUE, parsed |-> JSONparse(jsonMatch.text)]
        ELSE NoArray

\* which of the stage's outcomes a text leads to
ArrayOutcomeOf(text) ==
    LET e == ExtractJsonArray(text)
    IN  IF ~e.found THEN "noarray" ELSE IF e.parsed.raised THEN "badjson" ELSE "array"

TextTokens == {"[", "]", ",", "L", "p"}

ProviderTexts == SeqsUpTo(TextTokens, MaxText)

ExtractInit ==
    /\ p_pc = "call"
    /\ p_fn = "extractJsonArray"
    /\ p_in \in ProviderTexts
    /\ p_out = NoOutput

\* the provider's text arrives in a stage and the array is extracted
ExtractFromText ==
    /\ p_pc = "call"
    /\ p_fn = "extractJsonArray"
    /\ p_out' = Returned([extracted |-> ExtractJsonArray(p_in),
                          outcome |-> ArrayOutcomeOf(p_in)])
    /\ p_pc' = "done"
    /\ UNCHANGED <<p_fn, p_in>>

(***************************************************************************)
(* generateCitations: the parsed array mapped to citation objects.  A      *)
(* field of a parsed element is its text, absent and '' being both the     *)
(* empty sequence; authors is an array, given or not.                      *)
(***************************************************************************)
AcademicDomains == {"arxiv.org", "scholar.google.com"}

InstitutionalDomains ==
    {"pubmed.ncbi.nlm.nih.gov", "wikipedia.org"}
        \cup { "site" \o ToString(i) \o ".org" : i \in 1..9 }

\* determineSourceType, for the domains of the results of this model
determineSourceType(domain) ==
    IF domain \in AcademicDomains THEN <<"academic">>
    ELSE IF domain \in InstitutionalDomains THEN <<"institutional">>
    ELSE <<"web">>

\* extractYear(undefined): the current year; no result of this model has a
\* published_date
extractYear == <<"current year">>

NoList == [given |-> FALSE, list |-> <<>>]
List(l) == [given |-> TRUE, list |-> l]

\* searchResults[index]?.domain || ""
DomainAt(searchResults, index) ==
    IF index + 1 <= Len(searchResults) THEN searchResults[index + 1].domain ELSE ""

\* the callback of citations.map, index counted from 0
MapCitation(citation, index, searchResults) ==
    [id        |-> OrElse(citation.id, <<"cite-", ToString(index + 1)>>),
     formatted |-> OrElse(citation.formatted, OrElse(citation.citation, <<>>)),
     inText    |-> OrElse(citation.inText,
                          OrElse(citation.in_text, <<"(", ToString(index + 1), ")">>)),
     type      |-> OrElse(citation.type,
                          determineSourceType(DomainAt(searchResults, index))),
     year      |-> OrElse(citation.year, extractYear),
     authors   |-> IF citation.authors.given THEN citation.authors.list
                   ELSE << <<"Unknown">> >>]

\* return citations.map(...)
MapCitations(citations, searchResults) ==
    [i \in 1..Len(citations) |-> MapCitation(citations[i], i - 1, searchResults)]

FieldTexts(name) == {Absent, <<name>>}

ParsedCitations ==
    [id : FieldTexts("c1"), formatted : FieldTexts("Ada (2020). T."),
     citation : FieldTexts("Ada. T. 2020."), inText : FieldTexts("(Ada, 2020)"),
     in_text : FieldTexts("(Ada)"), type : FieldTexts("journal"),
     year : FieldTexts("2020"),
     authors : {NoList, List(<<>>), List(<< <<"Ada">> >>)}]

CompleteCitation ==
    [id |-> <<"c0">>, formatted |-> <<"Bo (2019). U.">>, citation |-> Absent,
     inText |-> <<"(Bo, 2019)">>, in_text |-> Absent, type |-> <<"book">>,
     year |-> <<"2019">>, authors |-> List(<< <<"Bo">> >>)]

CitationArrays ==
    { <<c>> : c \in ParsedCitations } \cup { <<CompleteCitation, c>> : c \in ParsedCitations }

CitationsInit ==
    /\ p_pc = "call"
    /\ p_fn = "generateCitations"
    /\ p_in \in [citations : CitationArrays,
                 searchResults : { <<>>, <<LangResult(1)>>, <<ArxivResult(1)>> }]
    /\ p_out = NoOutput

\* generateCitations once JSON.parse has given an array of objects
CitationsMapped ==
    /\ p_pc = "call"
    /\ p_fn = "generateCitations"
    /\ p_out' = Returned(MapCitations(p_in.citations, p_in.searchResults))
    /\ p_pc' = "done"
    /\ UNCHANGED <<p_fn, p_in>>

(***************************************************************************)
(* The APIChecker singleton over a process environment that may change.    *)
(* p_in is process.env, p_out.value the singleton: whether it exists, its  *)
(* availableAPIs, and what its getters answered.                           *)
(***************************************************************************)
EnvNames ==
    {"GROQ_API_KEY", "GOOGLE_GENERATIVE_AI_API_KEY", "LANGSEARCH_API_KEY",
     "BRAVE_API_KEY", "GOOGLE_SEARCH_API_KEY", "GOOGLE_SEARCH_CSE_ID",
     "OPENALEX_MAILTO", "OPENALEX_API_KEY"}

EnvValues == {Absent, <<"k">>}

\* checkAPIs: !!process.env.X for each credential
checkAPIs(env) ==
    [groq         |-> Truthy(env["GROQ_API_KEY"]),
     gemini       |-> Truthy(env["GOOGLE_GENERATIVE_AI_API_KEY"]),
     langSearch   |-> Truthy(env["LANGSEARCH_API_KEY"]),
     brave        |-> Truthy(env["BRAVE_API_KEY"]),
     googleSearch |-> Truthy(env["GOOGLE_SEARCH_API_KEY"])
                          /\ Truthy(env["GOOGLE_SEARCH_CSE_ID"]),
     openAlex     |-> Truthy(env["OPENALEX_MAILTO"]) \/ Truthy(env["OPENALEX_API_KEY"])]

\* the initializer of availableAPIs
NoAPIs ==
    [groq |-> FALSE, gemini |-> FALSE, langSearch |-> FALSE, brave |-> FALSE,
     googleSearch |-> FALSE, openAlex |-> FALSE]

NoAnswers == [asked |-> FALSE, ai |-> "null", search |-> "null"]

NoInstance ==
    [created |-> FALSE, availableAPIs |-> NoAPIs,
     envAtCreation |-> [n \in EnvNames |-> Absent],
     first |-> NoAnswers, last |-> NoAnswers]

RegistryInit ==
    /\ p_pc = "running"
    /\ p_fn = "APIChecker"
    /\ p_in \in [EnvNames -> EnvValues]
    /\ p_out = Returned(NoInstance)

\* APIChecker.getInstance() when no instance exists: the constructor runs
\* checkAPIs
RegistryGetInstance ==
    /\ p_pc = "running"
    /\ p_fn = "APIChecker"
    /\ ~p_out.value.created
    /\ p_out' = Returned([p_out.value EXCEPT !.created = TRUE,
                                             !.availableAPIs = checkAPIs(p_in),
                                             !.envAtCreation = p_in])
    /\ UNCHANGED <<p_pc, p_fn, p_in>>

\* a variable of process.env is set or deleted
RegistryEnvChange ==
    /\ p_pc = "running"
    /\ p_fn = "APIChecker"
    /\ \E n \in EnvNames : \E v \in EnvValues \ {p_in[n]} :
          p_in' = [p_in EXCEPT ![n] = v]
    /\ UNCHANGED <<p_pc, p_fn, p_out>>

\* getInstance().getAvailableAI() and .getAvailableSearch()
RegistryAsk ==
    /\ p_pc = "running"
    /\ p_fn = "APIChecker"
    /\ p_out.value.created
    /\ LET apis == p_out.value.availableAPIs
           answers == [asked |-> TRUE,
                       ai |-> getAvailableAI(apis.groq, apis.gemini),
                       search |-> getAvailableSearch(apis.langSearch, apis.brave,
                                                     apis.googleSearch, apis.openAlex)]
       IN  p_out' = Returned([p_out.value EXCEPT
                                 !.first = IF @.asked THEN @ ELSE answers,
                                 !.last = answers])
    /\ UNCHANGED <<p_pc, p_fn, p_in>>


(***************************************************************************)
(* One call of SearchService.rerankResults, for every reply of the         *)
(* reranker.                                                               *)
(***************************************************************************)
MaxReply == 2

\* document.id of a reply entry: missing, non-numeric, the first candidate,
\* the second, beyond the candidates, negative
RerankIdTexts == {Absent, <<"x">>, <<"0">>, <<"1">>, <<"7">>, <<"-", "1">>}

RerankReplies ==
    [kind : FailureKinds \cup {"errcode", "noresults"}]
        \cup [kind : {"ok"},
              entries : SeqsUpTo([id : RerankIdTexts, rel : {0, 70}], MaxReply)]

RerankCandidates == { <<>>, <<LangResult(1)>>, <<LangResult(1), LangResult(2)>> }

RerankTopNs == {1, RerankTopN}

RerankInit ==
    /\ p_pc = "call"
    /\ p_fn = "rerankResults"
    /\ \E langKey \in BOOLEAN, results \in RerankCandidates, topN \in RerankTopNs,
          out \in RerankReplies :
          p_in = [langKey |-> langKey, results |-> results, topN |-> topN, out |-> out]
    /\ p_out = NoOutput

RerankCall ==
    /\ p_pc = "call"
    /\ p_fn = "rerankResults"
    /\ p_out' = rerankResults(p_in.langKey, p_in.results, p_in.topN, p_in.out)
    /\ p_pc' = "done"
    /\ UNCHANGED <<p_fn, p_in>>

(***************************************************************************)
(* The fan-out of getRealSearchResults: four calls in flight, settling in  *)
(* any order.  p_in holds the promises in the order of the promises array  *)
(* and the order in which they settled.  A fetch that times out rejects,   *)
(* which is the outcome "throw"; each source function turns every failure  *)
(* into an empty list.                                                     *)
(***************************************************************************)
OpenSources == <<"duckduckgo", "wikipedia", "arxiv", "pubmed">>

Pending == [state |-> "pending", ok |-> FALSE, raised |-> FALSE, value |-> <<>>]

\* the promise of a source function that has run to its end
Fulfilled(ok, returned) ==
    [state |-> "fulfilled", ok |-> ok, raised |-> returned.raised,
     value |-> returned.value]

SourceOutcomes(i) ==
    CASE i = 1 -> DdgOutcomes [] i = 2 -> WikiOutcomes
      [] i = 3 -> ArxivOutcomes [] i = 4 -> PubMedOutcomes

SourceCall(i, query, out) ==
    CASE i = 1 -> searchWithDuckDuckGo(query, out)
      [] i = 2 -> searchWithWikipedia(query, out)
      [] i = 3 -> searchWithArXiv(query, out)
      [] i = 4 -> searchWithPubMed(query, out)

RECURSIVE MergeInOrder(_, _, _)
\* the results pushed as each call completes
MergeInOrder(settled, order, k) ==
    IF k > Len(order) THEN <<>>
    ELSE settled[order[k]].value \o MergeInOrder(settled, order, k + 1)

\* merging in the order of completion
MergeSettledAsCompleted(settled, order) == MergeInOrder(settled, order, 1)

\* allResults.forEach over the array Promise.allSettled gives, which is in
\* the order of the promises array whatever the order of completion
MergeSettled(settled, order) ==
    PushSettled(PushSettled(PushSettled(PushSettled(<<>>,
        settled[1]), settled[2]), settled[3]), settled[4])

FanOutInit ==
    /\ p_pc = "call"
    /\ p_fn = "getRealSearchResults"
    /\ \E query \in Queries :
          p_in = [query |-> query, settled |-> [i \in 1..4 |-> Pending], order |-> <<>>]
    /\ p_out = NoOutput

\* one of the four calls completes
FanOutSettle ==
    /\ p_pc = "call"
    /\ p_fn = "getRealSearchResults"
    /\ \E i \in 1..4 :
          /\ p_in.settled[i].state = "pending"
          /\ \E out \in SourceOutcomes(i) :
                p_in' = [p_in EXCEPT
                            !.settled[i] = Fulfilled(out.kind = "ok",
                                                     SourceCall(i, p_in.query, out)),
                            !.order = Append(@, i)]
    /\ UNCHANGED <<p_pc, p_fn, p_out>>

\* Promise.allSettled resolves: merge, removeDuplicates, sort
FanOutMerge ==
    /\ p_pc = "call"
    /\ p_fn = "getRealSearchResults"
    /\ \A i \in 1..4 : p_in.settled[i].state = "fulfilled"
    /\ LET merged == MergeSettled(p_in.settled, p_in.order)
       IN  p_out' = Returned([merged |-> merged,
                              returned |-> SortByScore(removeDuplicates(merged))])
    /\ p_pc' = "done"
    /\ UNCHANGED <<p_fn, p_in>>

(***************************************************************************)
(* LangSearchClient (lib/langsearch-client): webSearch, academicSearch,    *)
(* rerank and hybridSearch.  p_in holds the two searches hybridSearch      *)
(* starts, each pending, rejected or fulfilled.                            *)
(***************************************************************************)
\* one element of results.map(...) of webSearch
ClientResult(i) ==
    LET page == WebPage(i)
    IN  [title   |-> OrElse(page.name, <<"Untitled">>),
         url     |-> page.url,
         content |-> page.snippet,
         snippet |-> page.snippet,
         domain  |-> Hostname(page.url)]

\* LangSearchClient.webSearch: every failure is logged and thrown again
ClientWebSearch(out) ==
    IF out.kind \in FailureKinds \cup {"errcode"}
    THEN Thrown
    ELSE Returned([results |-> [i \in 1..out.n |-> ClientResult(i)]])

\* LangSearchClient.academicSearch: webSearch on the query with site filters
ClientAcademicSearch(out) == ClientWebSearch(out)

ClientSearchOutcomes ==
    [kind : FailureKinds \cup {"errcode"}] \cup [kind : {"ok"}, n : 0..MaxPayload]

NotSettled == [state |-> "pending", raised |-> FALSE, value |-> <<>>]

Settled(returned) ==
    [state |-> IF returned.raised THEN "rejected" ELSE "fulfilled",
     raised |-> returned.raised, value |-> returned.value]

\* combinedResults: the web results, then the academic results, each with
\* its id and source
CombinedResults(web, academic) ==
    [i \in 1..Len(web) |->
        [id |-> <<"web-", ToString(i - 1)>>, source |-> "web", result |-> web[i]]]
    \o [i \in 1..Len(academic) |->
        [id |-> <<"academic-", ToString(i - 1)>>, source |-> "academic",
         result |-> academic[i]]]

\* LangSearchClient.rerank: every failure is logged and thrown again; the
\* reply lists documents of the request, most relevant first
ClientRerankOutcomes(combined) ==
    [kind : FailureKinds \cup {"errcode"}]
        \cup [kind : {"ok"}, entries : SeqsUpTo(1..Len(combined), MaxRerank)]

ClientRerank(combined, out) ==
    IF out.kind \in FailureKinds \cup {"errcode"}
    THEN Thrown
    ELSE Returned([i \in 1..Len(out.entries) |-> combined[out.entries[i]]])

HybridInit ==
    /\ p_pc = "searching"
    /\ p_fn = "hybridSearch"
    /\ \E query \in Queries :
          p_in = [query |-> query, web |-> NotSettled, academic |-> NotSettled]
    /\ p_out = NoOutput

\* this.webSearch({query, ...options}) settles
HybridWebSettles ==
    /\ p_pc = "searching"
    /\ p_fn = "hybridSearch"
    /\ p_in.web.state = "pending"
    /\ \E out \in ClientSearchOutcomes :
          p_in' = [p_in EXCEPT !.web = Settled(ClientWebSearch(out))]
    /\ UNCHANGED <<p_pc, p_fn, p_out>>

\* this.academicSearch(query, options) settles
HybridAcademicSettles ==
    /\ p_pc = "searching"
    /\ p_fn = "hybridSearch"
    /\ p_in.academic.state = "pending"
    /\ \E out \in ClientSearchOutcomes :
          p_in' = [p_in EXCEPT !.academic = Settled(ClientAcademicSearch(out))]
    /\ UNCHANGED <<p_pc, p_fn, p_out>>

\* Promise.all rejects as soon as one of the two is rejected; the catch block
\* logs and throws again
HybridSearchRejected ==
    /\ p_pc = "searching"
    /\ p_fn = "hybridSearch"
    /\ "rejected" \in {p_in.web.state, p_in.academic.state}
    /\ p_out' = Thrown
    /\ p_pc' = "done"
    /\ UNCHANGED <<p_fn, p_in>>

\* Promise.all resolves: the combined results are reranked and returned
HybridRerank ==
    /\ p_pc = "searching"
    /\ p_fn = "hybridSearch"
    /\ p_in.web.state = "fulfilled" /\ p_in.academic.state = "fulfilled"
    /\ LET combined == CombinedResults(p_in.web.value.results,
                                       p_in.academic.value.results)
       IN  \E out \in ClientRerankOutcomes(combined) :
              LET reranked == ClientRerank(combined, out)
              IN  p_out' = IF reranked.raised THEN Thrown
                           ELSE Returned([webResults |-> p_in.web.value.results,
                                          academicResults |-> p_in.academic.value.results,
                                          rerankedResults |-> reranked.value])
    /\ p_pc' = "done"
    /\ UNCHANGED <<p_fn, p_in>>

(***************************************************************************)
(* One call of enhanceSearchResults: the callbacks of results.map run      *)
(* concurrently and complete in any order; Promise.all gives their values  *)
(* in the order of the input.                                              *)
(***************************************************************************)
MaxEnhanced == 3

\* a SearchResult with all its fields
FullResult(i) ==
    [title |-> LangResult(i).title,
     url |-> LangResult(i).url,
     snippet |-> LangResult(i).snippet,
     domain |-> LangResult(i).domain,
     score |-> LangResult(i).score,
     published_date |-> <<"2024-0", ToString(i)>>,
     author |-> <<"Unknown">>]

EnhanceFetchOutcomes == FetchOutcomes \cup {"emptybody"}

NotFetched == [state |-> "pending", outcome |-> "none", raised |-> FALSE, value |-> <<>>]

RECURSIVE ValuesInOrder(_, _, _)
ValuesInOrder(settled, order, k) ==
    IF k > Len(order) THEN <<>>
    ELSE <<settled[order[k]].value>> \o ValuesInOrder(settled, order, k + 1)

\* the values in the order in which the callbacks completed
EnhancedAsCompleted(settled, order) == ValuesInOrder(settled, order, 1)

\* the array Promise.all resolves with: the callbacks' values by index
EnhancedResults(settled, order) == [i \in 1..Len(settled) |-> settled[i].value]

EnhanceInit ==
    /\ p_pc = "call"
    /\ p_fn = "enhanceSearchResults"
    /\ \E n \in 0..MaxEnhanced :
          p_in = [results |-> [i \in 1..n |-> FullResult(i)],
                  settled |-> [i \in 1..n |-> NotFetched],
                  order |-> <<>>]
    /\ p_out = NoOutput

\* the callback of one result completes
EnhanceCallbackSettles ==
    /\ p_pc = "call"
    /\ p_fn = "enhanceSearchResults"
    /\ \E i \in 1..Len(p_in.results) :
          /\ p_in.settled[i].state = "pending"
          /\ \E out \in EnhanceFetchOutcomes :
                LET r == EnhanceCallback(p_in.results[i], out)
                IN  p_in' = [p_in EXCEPT
                                !.settled[i] = [state |-> "settled", outcome |-> out,
                                                raised |-> r.raised, value |-> r.value],
                                !.order = Append(@, i)]
    /\ UNCHANGED <<p_pc, p_fn, p_out>>

\* Promise.all settles and enhanceSearchResults returns
EnhanceReturn ==
    /\ p_pc = "call"
    /\ p_fn = "enhanceSearchResults"
    /\ \A i \in 1..Len(p_in.results) : p_in.settled[i].state = "settled"
    /\ p_out' = IF \E i \in 1..Len(p_in.results) : p_in.settled[i].raised
                THEN Thrown
                ELSE Returned(EnhancedResults(p_in.settled, p_in.order))
    /\ p_pc' = "done"
    /\ UNCHANGED <<p_fn, p_in>>

(***************************************************************************)
(* One call of a synthetic fallback producer: getEnhancedFallbackResults   *)
(* of SearchService and the function of the same name of the route.        *)
(***************************************************************************)
MaxQuery == 4

QueryChars == {"g", " ", "&"}

FallbackQueries == SeqsUpTo(QueryChars, MaxQuery)

FallbackProducers ==
    {"SearchService.getEnhancedFallbackResults", "getEnhancedFallbackResults"}

FallbackInit ==
    /\ p_pc = "call"
    /\ p_fn \in FallbackProducers
    /\ p_in \in FallbackQueries
    /\ p_out = NoOutput

\* SearchService.getEnhancedFallbackResults(query)
ServiceFallbackCall ==
    /\ p_pc = "call"
    /\ p_fn = "SearchService.getEnhancedFallbackResults"
    /\ p_out' = Returned(ServiceFallbackResults(p_in))
    /\ p_pc' = "done"
    /\ UNCHANGED <<p_fn, p_in>>

\* getEnhancedFallbackResults(query) of the route
RouteFallbackCall ==
    /\ p_pc = "call"
    /\ p_fn = "getEnhancedFallbackResults"
    /\ p_out' = Returned(RouteFallbackResults(p_in))
    /\ p_pc' = "done"
    /\ UNCHANGED <<p_fn, p_in>>

(***************************************************************************)
(* GET of a works endpoint (app/api/{openalex,crossref,arxiv,europepmc}/   *)
(* works/route) down to the provider client.  p_in is the request and the  *)
(* outcome of the client's fetch; p_out.value the HTTP response.           *)
(***************************************************************************)
WorksProviders == {"openalex", "crossref", "arxiv", "europepmc"}

WorksQueries == {Absent, <<" ">>, <<"q">>, <<"q", " ", "r">>}

UpstreamOutcomes == [kind : FailureKinds] \cup [kind : {"ok"}, n : 0..MaxEntries]

\* q.trim().length === 0
IsBlank(q) == \A i \in 1..Len(q) : q[i] = " "

\* openalexWorksSearch, crossrefWorksSearch, arxivSearch, europePmcSearch: a
\* rejected fetch is not caught, a non-OK status is thrown as an Error, and
\* a body that cannot be decoded throws in res.json() or in the parser
WorksClientCall(provider, out) ==
    IF out.kind \in FailureKinds
    THEN Thrown
    ELSE Returned([source |-> provider, papers |-> out.n])

\* searchService.openAlexWorksSearch / crossrefWorks / arxivWorks /
\* europePmcWorks: hands on what the client returns or throws
WorksFacadeCall(settled) == settled

JsonResponse(status, body) == [status |-> status, body |-> body]

\* GET: 400 without a query; NextResponse.json(result); the catch block
\* answers 500
WorksGet(provider, q, out) ==
    IF ~Truthy(q) \/ IsBlank(q)
    THEN JsonResponse(400, "Missing query parameter q")
    ELSE LET result == WorksFacadeCall(WorksClientCall(provider, out))
         IN  IF result.raised THEN JsonResponse(500, "works error")
             ELSE JsonResponse(200, result.value)

WorksRequestInit ==
    /\ p_pc = "call"
    /\ p_fn = "GET works"
    /\ \E provider \in WorksProviders, q \in WorksQueries, out \in UpstreamOutcomes :
          p_in = [provider |-> provider, q |-> q, upstream |-> out]
    /\ p_out = NoOutput

WorksRequestHandled ==
    /\ p_pc = "call"
    /\ p_fn = "GET works"
    /\ p_out' = Returned(WorksGet(p_in.provider, p_in.q, p_in.upstream))
    /\ p_pc' = "done"
    /\ UNCHANGED <<p_fn, p_in>>

(***************************************************************************)
(* Paging through arXiv: arxivSearch called again and again with the same  *)
(* maxResults, each nextCursor going back in as the next start.  p_in is   *)
(* the page size and the number of records the archive holds; p_out.value  *)
(* the traversal so far: the next start, the records returned (their       *)
(* positions in the archive, in the order returned) and the pages fetched. *)
(***************************************************************************)
PagingMaxResults ==
    {1, 2, 3} \cup ((ProviderMaxPageSize("arxiv") - 1)..(ProviderMaxPageSize("arxiv") + 2))

\* the position in the archive of a returned paper, read from its id
RecordIndex(paper) == parseInt(Tail(paper.id)).n

RecordsOf(papers) == [i \in 1..Len(papers) |-> RecordIndex(papers[i])]

PagingInit ==
    /\ p_pc = "paging"
    /\ p_fn = "arxivSearch pages"
    /\ \E maxResults \in PagingMaxResults, total \in 0..MaxTotal :
          p_in = [maxResults |-> maxResults, total |-> total]
    /\ p_out = Returned([start |-> 0, records |-> <<>>, pages |-> 0])

\* one call of arxivSearch and what the caller does with its nextCursor
PagingNextPage ==
    /\ p_pc = "paging"
    /\ p_fn = "arxivSearch pages"
    /\ LET page == arxivSearch(Given(p_out.value.start), Given(p_in.maxResults),
                               p_in.total, TRUE).page
           records == p_out.value.records \o RecordsOf(page.papers)
           pages == p_out.value.pages + 1
       IN  IF page.nextCursor.isNull
           THEN /\ p_out' = Returned([start |-> p_out.value.start,
                                      records |-> records, pages |-> pages])
                /\ p_pc' = "done"
           ELSE /\ p_out' = Returned([start |-> parseInt(page.nextCursor.text).n,
                                      records |-> records, pages |-> pages])
                /\ p_pc' = "paging"
    /\ UNCHANGED <<p_fn, p_in>>

(***************************************************************************)
(* Specifications: one per component, the other components idle.           *)
(***************************************************************************)
InitDedup == DedupInit /\ NormIdle /\ SearchIdle /\ ResearchIdle /\ WrapperIdle /\ PureIdle

NextDedup ==
    \/ DedupApply /\ UNCHANGED <<nmvars, svars, rvars, wvars, pvars>>
    \/ DedupReapply /\ UNCHANGED <<nmvars, svars, rvars, wvars, pvars>>

SpecDedup == InitDedup /\ [][NextDedup]_vars

InitNorm == NormInit /\ DedupIdle /\ SearchIdle /\ ResearchIdle /\ WrapperIdle /\ PureIdle

NextNorm ==
    \/ NormalizeAll /\ UNCHANGED <<ddvars, svars, rvars, wvars, pvars>>
    \/ NormalizeAgain /\ UNCHANGED <<ddvars, svars, rvars, wvars, pvars>>

SpecNorm == InitNorm /\ [][NextNorm]_vars

InitSearch == SearchInit /\ DedupIdle /\ NormIdle /\ ResearchIdle /\ WrapperIdle /\ PureIdle

NextSearch ==
    \/ SearchLangSearch /\ UNCHANGED <<ddvars, nmvars, rvars, wvars, pvars>>
    \/ SearchLangSkipped /\ UNCHANGED <<ddvars, nmvars, rvars, wvars, pvars>>
    \/ SearchBrave /\ UNCHANGED <<ddvars, nmvars, rvars, wvars, pvars>>
    \/ SearchBraveSkipped /\ UNCHANGED <<ddvars, nmvars, rvars, wvars, pvars>>
    \/ SearchKeepResults /\ UNCHANGED <<ddvars, nmvars, rvars, wvars, pvars>>
    \/ SearchOpenSources /\ UNCHANGED <<ddvars, nmvars, rvars, wvars, pvars>>
    \/ SearchEnhanceOne /\ UNCHANGED <<ddvars, nmvars, rvars, wvars, pvars>>
    \/ SearchReturn /\ UNCHANGED <<ddvars, nmvars, rvars, wvars, pvars>>

SpecSearch == InitSearch /\ [][NextSearch]_vars

InitRetry == WrapperInit /\ DedupIdle /\ NormIdle /\ SearchIdle /\ ResearchIdle /\ PureIdle

NextRetry ==
    \/ WrapperAttempt /\ UNCHANGED <<ddvars, nmvars, svars, rvars, pvars>>
    \/ WrapperBackoffOver /\ UNCHANGED <<ddvars, nmvars, svars, rvars, pvars>>

SpecRetry == InitRetry /\ [][NextRetry]_vars

InitReconstruct ==
    ReconstructInit /\ DedupIdle /\ NormIdle /\ SearchIdle /\ ResearchIdle /\ WrapperIdle

NextReconstruct ==
    \/ ReconstructApply /\ UNCHANGED <<ddvars, nmvars, svars, rvars, wvars>>

SpecReconstruct == InitReconstruct /\ [][NextReconstruct]_vars

InitPageSize ==
    PageSizeInit /\ DedupIdle /\ NormIdle /\ SearchIdle /\ ResearchIdle /\ WrapperIdle

NextPageSize ==
    \/ WorksRouteGet /\ UNCHANGED <<ddvars, nmvars, svars, rvars, wvars>>
    \/ WorksClientSearch /\ UNCHANGED <<ddvars, nmvars, svars, rvars, wvars>>

SpecPageSize == InitPageSize /\ [][NextPageSize]_vars

InitArxiv ==
    ArxivSearchInit /\ DedupIdle /\ NormIdle /\ SearchIdle /\ ResearchIdle /\ WrapperIdle

NextArxiv ==
    \/ ArxivSearchCall /\ UNCHANGED <<ddvars, nmvars, svars, rvars, wvars>>

SpecArxiv == InitArxiv /\ [][NextArxiv]_vars

InitExtract ==
    ExtractInit /\ DedupIdle /\ NormIdle /\ SearchIdle /\ ResearchIdle /\ WrapperIdle

NextExtract ==
    \/ ExtractFromText /\ UNCHANGED <<ddvars, nmvars, svars, rvars, wvars>>

SpecExtract == InitExtract /\ [][NextExtract]_vars

InitCitations ==
    CitationsInit /\ DedupIdle /\ NormIdle /\ SearchIdle /\ ResearchIdle /\ WrapperIdle

NextCitations ==
    \/ CitationsMapped /\ UNCHANGED <<ddvars, nmvars, svars, rvars, wvars>>

SpecCitations == InitCitations /\ [][NextCitations]_vars

InitRegistry ==
    RegistryInit /\ DedupIdle /\ NormIdle /\ SearchIdle /\ ResearchIdle /\ WrapperIdle

NextRegistry ==
    \/ RegistryGetInstance /\ UNCHANGED <<ddvars, nmvars, svars, rvars, wvars>>
    \/ RegistryEnvChange /\ UNCHANGED <<ddvars, nmvars, svars, rvars, wvars>>
    \/ RegistryAsk /\ UNCHANGED <<ddvars, nmvars, svars, rvars, wvars>>

SpecRegistry == InitRegistry /\ [][NextRegistry]_vars


InitRerank ==
    RerankInit /\ DedupIdle /\ NormIdle /\ SearchIdle /\ ResearchIdle /\ WrapperIdle

NextRerank ==
    \/ RerankCall /\ UNCHANGED <<ddvars, nmvars, svars, rvars, wvars>>

SpecRerank == InitRerank /\ [][NextRerank]_vars

InitFanOut ==
    FanOutInit /\ DedupIdle /\ NormIdle /\ SearchIdle /\ ResearchIdle /\ WrapperIdle

NextFanOut ==
    \/ FanOutSettle /\ UNCHANGED <<ddvars, nmvars, svars, rvars, wvars>>
    \/ FanOutMerge /\ UNCHANGED <<ddvars, nmvars, svars, rvars, wvars>>

SpecFanOut == InitFanOut /\ [][NextFanOut]_vars

InitHybrid ==
    HybridInit /\ DedupIdle /\ NormIdle /\ SearchIdle /\ ResearchIdle /\ WrapperIdle

NextHybrid ==
    \/ HybridWebSettles /\ UNCHANGED <<ddvars, nmvars, svars, rvars, wvars>>
    \/ HybridAcademicSettles /\ UNCHANGED <<ddvars, nmvars, svars, rvars, wvars>>
    \/ HybridSearchRejected /\ UNCHANGED <<ddvars, nmvars, svars, rvars, wvars>>
    \/ HybridRerank /\ UNCHANGED <<ddvars, nmvars, svars, rvars, wvars>>

SpecHybrid == InitHybrid /\ [][NextHybrid]_vars

InitEnhance ==
    EnhanceInit /\ DedupIdle /\ NormIdle /\ SearchIdle /\ ResearchIdle /\ WrapperIdle

NextEnhance ==
    \/ EnhanceCallbackSettles /\ UNCHANGED <<ddvars, nmvars, svars, rvars, wvars>>
    \/ EnhanceReturn /\ UNCHANGED <<ddvars, nmvars, svars, rvars, wvars>>

SpecEnhance == InitEnhance /\ [][NextEnhance]_vars

InitFallback ==
    FallbackInit /\ DedupIdle /\ NormIdle /\ SearchIdle /\ ResearchIdle /\ WrapperIdle

NextFallback ==
    \/ ServiceFallbackCall /\ UNCHANGED <<ddvars, nmvars, svars, rvars, wvars>>
    \/ RouteFallbackCall /\ UNCHANGED <<ddvars, nmvars, svars, rvars, wvars>>

SpecFallback == InitFallback /\ [][NextFallback]_vars

InitWorks ==
    WorksRequestInit /\ DedupIdle /\ NormIdle /\ SearchIdle /\ ResearchIdle /\ WrapperIdle

NextWorks ==
    \/ WorksRequestHandled /\ UNCHANGED <<ddvars, nmvars, svars, rvars, wvars>>

SpecWorks == InitWorks /\ [][NextWorks]_vars

InitPaging ==
    PagingInit /\ DedupIdle /\ NormIdle /\ SearchIdle /\ ResearchIdle /\ WrapperIdle

NextPaging ==
    \/ PagingNextPage /\ UNCHANGED <<ddvars, nmvars, svars, rvars, wvars>>

SpecPaging == InitPaging /\ [][NextPaging]_vars

\* POST /research, with the search it runs
Init == ResearchInit /\ DedupIdle /\ NormIdle /\ WrapperIdle /\ PureIdle

Next ==
    \/ ResearchBodyUnreadable /\ UNCHANGED <<ddvars, nmvars, svars, wvars, pvars>>
    \/ ResearchNoAI /\ UNCHANGED <<ddvars, nmvars, svars, wvars, pvars>>
    \/ ResearchAccepted /\ UNCHANGED <<ddvars, nmvars, svars, wvars, pvars>>
    \/ PerformWebSearchCall /\ UNCHANGED <<ddvars, nmvars, wvars, pvars>>
    \/ SearchLangSearch /\ UNCHANGED <<ddvars, nmvars, rvars, wvars, pvars>>
    \/ SearchLangSkipped /\ UNCHANGED <<ddvars, nmvars, rvars, wvars, pvars>>
    \/ SearchBrave /\ UNCHANGED <<ddvars, nmvars, rvars, wvars, pvars>>
    \/ SearchBraveSkipped /\ UNCHANGED <<ddvars, nmvars, rvars, wvars, pvars>>
    \/ SearchKeepResults /\ UNCHANGED <<ddvars, nmvars, rvars, wvars, pvars>>
    \/ SearchOpenSources /\ UNCHANGED <<ddvars, nmvars, rvars, wvars, pvars>>
    \/ SearchEnhanceOne /\ UNCHANGED <<ddvars, nmvars, rvars, wvars, pvars>>
    \/ SearchReturn /\ UNCHANGED <<ddvars, nmvars, rvars, wvars, pvars>>
    \/ PerformWebSearchSettled /\ UNCHANGED <<ddvars, nmvars, wvars, pvars>>
    \/ GenerateSummaryWithRetry /\ UNCHANGED <<ddvars, nmvars, svars, wvars, pvars>>
    \/ GenerateCitationsWithRetry /\ UNCHANGED <<ddvars, nmvars, svars, wvars, pvars>>
    \/ ExtractInsightsWithRetry /\ UNCHANGED <<ddvars, nmvars, svars, wvars, pvars>>
    \/ GenerateRelatedTopicsWithRetry /\ UNCHANGED <<ddvars, nmvars, svars, wvars, pvars>>
    \/ ResearchRespond /\ UNCHANGED <<ddvars, nmvars, svars, wvars, pvars>>

Spec == Init /\ [][Next]_vars

(***************************************************************************)
(* C9: for each of the four normalizers and every raw record, Paper.id is  *)
(* a DOI-based id when the record carries a DOI, otherwise a fallback id   *)
(* prefixed with the provider's name; and normalizing the same raw record  *)
(* again yields the identical id.                                          *)
(***************************************************************************)
Normalized(p) == nm_paper[p].source = p

DoiBased(paper) == Contains(paper.id, paper.doi)

\* the leading text of an id that names its provider, read generously: the
\* provider's own name or the provider's own URL space
ProviderIdPrefixes(source) ==
    CASE source = "openalex"  -> {"openalex:", "https://openalex.org/"}
      [] source = "crossref"  -> {"crossref:", "https://api.crossref.org/"}
      [] source = "arxiv"     -> {"arxiv:", "http://arxiv.org/abs/"}
      [] source = "europepmc" -> {"europepmc:", "https://europepmc.org/"}

ProviderPrefixed(paper) ==
    /\ paper.id # <<>>
    /\ Head(paper.id) \in ProviderIdPrefixes(paper.source)

C9_IdDoiBasedElsePrefixed ==
    \A p \in Providers :
        /\ Normalized(p) =>
              IF Truthy(nm_paper[p].doi) THEN DoiBased(nm_paper[p])
                                         ELSE ProviderPrefixed(nm_paper[p])
        /\ nm_again[p].source = p => nm_again[p].id = nm_paper[p].id

(***************************************************************************)
(* C10: Paper.id is stable across providers that share a DOI: two raw      *)
(* records from different providers (OpenAlex, Crossref, Europe PMC) that  *)
(* carry the same DOI are normalized to Papers with equal ids.             *)
(***************************************************************************)
DoiProviders == {"openalex", "crossref", "europepmc"}

C10_IdStableAcrossProviders ==
    \A p, q \in DoiProviders :
        ( /\ Normalized(p) /\ Normalized(q)
          /\ Truthy(nm_paper[p].doi)
          /\ nm_paper[p].doi = nm_paper[q].doi )
        => nm_paper[p].id = nm_paper[q].id

(***************************************************************************)
(* C1: SearchService.search never raises: for every query and numResults   *)
(* and every combination of outcomes of its external calls, no exception   *)
(* escapes the call, the call is never stuck before it returns, and what   *)
(* it returns is a list.                                                   *)
(***************************************************************************)
IsList(v) == DOMAIN v = 1..Len(v)

C1_SearchNeverRaises ==
    /\ s_pc # "raised"
    /\ s_pc \notin {"idle", "done"} => ENABLED NextSearch
    /\ s_pc = "done" => IsList(s_ret)

\* search has returned although a keyed provider threw, an open source sent a
\* malformed payload... : here LangSearch and Brave were both called and
\* returned nothing, and the call went on to the open sources
C1_Witness ==
    /\ s_pc = "done"
    /\ s_langKey /\ s_braveKey
    /\ s_via = "open"

(***************************************************************************)
(* C2: SearchService.search never returns an empty list: for every query   *)
(* and every numResults >= 1 the returned list has at least one result.    *)
(***************************************************************************)
C2_SearchNeverEmpty ==
    (s_pc = "done" /\ s_num >= 1) => Len(s_ret) >= 1

(***************************************************************************)
(* C3: when an AI credential is configured, no search credential is        *)
(* configured, and every external search, scrape and generation call       *)
(* fails, POST /research responds with HTTP 200, metadata.usedSearch equal *)
(* to "fallback", exactly 3 sources, and every source title containing the *)
(* query text.                                                             *)
(***************************************************************************)
AICredential == r_groq \/ r_gemini

NoSearchCredential == ~s_langKey /\ ~s_braveKey /\ r_other = "none"

C3_AllFailingGivesThreeFallbackSources ==
    (r_pc = "done" /\ r_body = "json" /\ AICredential /\ NoSearchCredential
        /\ r_allFailed)
    => /\ r_resp.status = 200
       /\ r_resp.usedSearch = "fallback"
       /\ Len(r_resp.sources) = 3
       /\ \A i \in 1..Len(r_resp.sources) : Contains(r_resp.sources[i].title, r_query)

(***************************************************************************)
(* C4: for each of the five retry wrappers, a stage function that fails on *)
(* attempts 1 and 2 and succeeds on attempt 3 makes the wrapper return     *)
(* that success value, the fallback producer unused; a stage function that *)
(* fails on all 3 attempts makes the wrapper return exactly the fallback   *)
(* producer's output; the wrapper does not raise.                          *)
(***************************************************************************)
C4_RetryThenSuccessElseFallback ==
    /\ w_pc \in {"idle", "attempt", "backoff", "returned"}
    /\ (w_pc \in {"attempt", "backoff"} => Len(w_calls) < maxRetries)
    /\ (w_pc = "returned" =>
          /\ (w_calls = <<"throw", "throw", "return">> =>
                 w_ret = [value |-> StageSuccess(w_stage, 3), fallback |-> FALSE])
          /\ (w_calls = <<"throw", "throw", "throw">> =>
                 w_ret = [value |-> FallbackOutput(w_stage, w_query, w_results),
                          fallback |-> TRUE])
          /\ (w_ret.fallback => w_calls = <<"throw", "throw", "throw">>))

C4_Witness ==
    /\ w_pc = "returned"
    /\ w_calls = <<"throw", "throw", "return">>
    /\ w_waits = <<2000, 4000>>

(***************************************************************************)
(* C5: a failure inside a pipeline stage of /research (a transport error   *)
(* from the generation or search provider, or a generation response from   *)
(* which no valid JSON array can be parsed) is a failed attempt that is    *)
(* retried, up to 3 attempts in total, and the fallback producer's output  *)
(* is returned only after the third failed attempt.                        *)
(***************************************************************************)
C5_StageFailureIsRetried ==
    r_stage.outcome # "none"
    => /\ (r_stage.log[Len(r_stage.log)] = "failed" => Len(r_stage.log) = maxRetries)
       /\ (r_stage.outcome = "fallback" => r_stage.log = <<"failed", "failed", "failed">>)

ReconstructDone ==
    p_pc = "done" /\ p_fn = "reconstructAbstractFromInvertedIndex" /\ p_in.present

\* the place of the i-th collected pair in a stable ascending order
StableRank(pairs, i) ==
    1 + Cardinality({ j \in 1..Len(pairs) :
                        \/ pairs[j].pos < pairs[i].pos
                        \/ pairs[j].pos = pairs[i].pos /\ j < i })

\* the words of a text, without the spaces between them
WordsOf(text) ==
    [k \in 1..((Len(text) + 1) \div 2) |-> text[2 * k - 1]]

\* each position 0..n-1 occurs exactly once among the n pairs
IsPermutationIndex(pairs) ==
    \A k \in 0..(Len(pairs) - 1) :
        Cardinality({ j \in 1..Len(pairs) : pairs[j].pos = k }) = 1

C11_ReconstructOrdersByPosition ==
    ReconstructDone =>
        LET pairs == CollectPositions(p_in.entries)
            text  == p_out.value.text
            words == WordsOf(text)
        IN  /\ ~p_out.raised
            /\ p_out.value.defined
            /\ Len(text) = IF pairs = <<>> THEN 0 ELSE 2 * Len(pairs) - 1
            /\ \A k \in 1..(Len(text) \div 2) : text[2 * k] = " "
            /\ \A i \in 1..Len(pairs) : words[StableRank(pairs, i)] = pairs[i].word
            /\ IsPermutationIndex(pairs) =>
                  \A i \in 1..Len(pairs) : words[pairs[i].pos + 1] = pairs[i].word

C11_Witness ==
    /\ ReconstructDone
    /\ p_in.entries = << [word |-> "A", inds |-> <<2>>],
                         [word |-> "quick", inds |-> <<0>>],
                         [word |-> "brown", inds |-> <<1>>] >>
    /\ p_out.value.text = <<"quick", " ", "brown", " ", "A">>

(***************************************************************************)
(* C12: for every requested page size, each works endpoint and each        *)
(* provider client sends the provider a page size inside its documented    *)
(* range ([1,200] for OpenAlex, Crossref and arXiv; [1,100] for Europe     *)
(* PMC) and never rejects the request because of the page size; a request  *)
(* for more than the maximum is sent as the provider's maximum.            *)
(***************************************************************************)
DocumentedMaxPageSize(provider) ==
    CASE provider = "openalex"  -> 200
      [] provider = "crossref"  -> 200
      [] provider = "arxiv"     -> 200
      [] provider = "europepmc" -> 100

\* the integer a request asks for, when it asks for one
RequestedPageSize ==
    IF p_fn = "client" THEN Number(p_in.size.n) ELSE parseInt(p_in.param)

AsksForAnInteger ==
    IF p_fn = "client" THEN p_in.size.given ELSE ~parseInt(p_in.param).nan

C12_PageSizeClampedNeverRejected ==
    (p_pc = "done" /\ p_fn \in {"route", "client"}) =>
        /\ ~p_out.raised
        /\ p_out.value >= 1
        /\ p_out.value <= DocumentedMaxPageSize(p_in.provider)
        /\ (AsksForAnInteger
              /\ RequestedPageSize.n > DocumentedMaxPageSize(p_in.provider))
           => p_out.value = DocumentedMaxPageSize(p_in.provider)

C12_Witness ==
    /\ p_pc = "done"
    /\ p_fn = "route"
    /\ p_in = [provider |-> "europepmc", param |-> <<"3", "0", "0">>]
    /\ p_out.value = 100

(***************************************************************************)
(* C13: for the arXiv provider, nextCursor is the decimal string of        *)
(* start + perPage when more records remain after the returned page, and   *)
(* null otherwise (including when the feed reports no total).              *)
(***************************************************************************)
ArxivSearchDone == p_pc = "done" /\ p_fn = "arxivSearch"

\* records of the archive lie beyond the page that was returned
MoreRecordsRemain ==
    /\ p_in.reportsTotal
    /\ p_out.value.sentStart + Len(p_out.value.page.papers) < p_in.held

RequestedStart == IF p_in.start.given THEN p_in.start.n ELSE 0

RequestedPerPage == IF p_in.maxResults.given THEN p_in.maxResults.n ELSE DefaultPageSize

C13_ArxivNextCursor ==
    ArxivSearchDone =>
        LET next == p_out.value.page.nextCursor
        IN  IF MoreRecordsRemain
            THEN /\ ~next.isNull
                 /\ ~parseInt(next.text).nan
                 /\ parseInt(next.text).n = RequestedStart + RequestedPerPage
                 /\ String(parseInt(next.text).n) = next.text
            ELSE next.isNull

(***************************************************************************)
(* C14: in generateCitations, extractInsights and generateRelatedTopics    *)
(* the JSON array is extracted as the first balanced [...] substring of    *)
(* the provider's raw text: for every raw text made of prose, then one     *)
(* valid JSON array, then prose, the parsed result is exactly that array.  *)
(* The prose before the array has no bracket, so that the array is the     *)
(* first balanced substring; the prose after it is arbitrary.              *)
(***************************************************************************)
BracketFree(text) == \A i \in 1..Len(text) : text[i] \notin {"[", "]"}

\* text[i..j] is a valid JSON array and only bracket-free prose precedes it
ArrayAt(text, i, j) ==
    /\ text[i] = "["
    /\ BracketFree(SubSeq(text, 1, i - 1))
    /\ ~JSONparse(SubSeq(text, i, j)).raised

C14_FirstBalancedArrayIsParsed ==
    (p_pc = "done" /\ p_fn = "extractJsonArray") =>
        \A i \in 1..Len(p_in) : \A j \in i..Len(p_in) :
            ArrayAt(p_in, i, j) =>
                /\ p_out.value.extracted.found
                /\ p_out.value.extracted.parsed = JSONparse(SubSeq(p_in, i, j))
                /\ p_out.value.outcome = "array"

(***************************************************************************)
(* C15: every citation object returned by generateCitations, for every     *)
(* parsed array element (elements missing any subset of the fields         *)
(* included), has all six fields id, formatted, inText, type, year and     *)
(* authors populated with a non-empty value.                               *)
(***************************************************************************)
C15_CitationFieldsPopulated ==
    (p_pc = "done" /\ p_fn = "generateCitations") =>
        /\ Len(p_out.value) = Len(p_in.citations)
        /\ \A i \in 1..Len(p_out.value) :
              /\ p_out.value[i].id # <<>>
              /\ p_out.value[i].formatted # <<>>
              /\ p_out.value[i].inText # <<>>
              /\ p_out.value[i].type # <<>>
              /\ p_out.value[i].year # <<>>
              /\ p_out.value[i].authors # <<>>

(***************************************************************************)
(* C16: for every combination of configured credentials the registry's     *)
(* preference is a fixed total order: getAvailableAI answers groq if its   *)
(* credential is present, else gemini if present, else null;               *)
(* getAvailableSearch answers the first configured of langSearch, brave,   *)
(* googleSearch, openAlex, else null; the answers are those of the         *)
(* environment as it was when the singleton was created and never change.  *)
(***************************************************************************)
AIOrder == <<"groq", "gemini">>

SearchOrder == <<"langSearch", "brave", "googleSearch", "openAlex">>

\* the credential of a provider is present in env
Configured(env, provider) ==
    CASE provider = "groq"         -> env["GROQ_API_KEY"] # <<>>
      [] provider = "gemini"       -> env["GOOGLE_GENERATIVE_AI_API_KEY"] # <<>>
      [] provider = "langSearch"   -> env["LANGSEARCH_API_KEY"] # <<>>
      [] provider = "brave"        -> env["BRAVE_API_KEY"] # <<>>
      [] provider = "googleSearch" -> env["GOOGLE_SEARCH_API_KEY"] # <<>>
                                          /\ env["GOOGLE_SEARCH_CSE_ID"] # <<>>
      [] provider = "openAlex"     -> env["OPENALEX_MAILTO"] # <<>>
                                          \/ env["OPENALEX_API_KEY"] # <<>>

\* answer is the first provider of order configured in env, "null" if none is
FirstConfigured(env, order, answer) ==
    IF \A i \in 1..Len(order) : ~Configured(env, order[i])
    THEN answer = "null"
    ELSE \E i \in 1..Len(order) :
            /\ answer = order[i]
            /\ Configured(env, order[i])
            /\ \A j \in 1..(i - 1) : ~Configured(env, order[j])

C16_RegistryOrderFromSnapshot ==
    (p_fn = "APIChecker" /\ p_out.value.last.asked) =>
        /\ FirstConfigured(p_out.value.envAtCreation, AIOrder, p_out.value.last.ai)
        /\ FirstConfigured(p_out.value.envAtCreation, SearchOrder,
                           p_out.value.last.search)
        /\ p_out.value.last = p_out.value.first

C16_Witness ==
    /\ p_fn = "APIChecker"
    /\ p_out.value.last.asked
    /\ p_out.value.last.search = "brave"
    /\ p_out.value.last.ai = "gemini"
    /\ p_in["LANGSEARCH_API_KEY"] # <<>>
    /\ p_in["GROQ_API_KEY"] # <<>>

(***************************************************************************)
(* C17: every SearchResult returned by SearchService.search has a score    *)
(* between 0 and 1 (0..100 in hundredths), for every provider payload      *)
(* size, every position of a result within its provider's list, and        *)
(* whether or not the result was enriched.                                 *)
(***************************************************************************)
C17_ScoreWithinUnitInterval ==
    s_pc = "done" =>
        \A i \in 1..Len(s_ret) : s_ret[i].score >= 0 /\ s_ret[i].score <= 100

(***************************************************************************)
(* C18: for every SearchResult produced by any source of SearchService     *)
(* (LangSearch, Brave, DuckDuckGo, Wikipedia, arXiv, PubMed, the synthetic *)
(* fallback), domain equals the host component of that result's url.       *)
(***************************************************************************)
C18_DomainIsHostOfUrl ==
    s_pc \in {"enhance", "done"} =>
        \A i \in 1..Len(s_results) :
            s_results[i].domain = Hostname(s_results[i].url)

(***************************************************************************)
(* C19: in every SearchService.search call, whichever tiers supplied the   *)
(* results, the list handed to enrichment never contains two results with  *)
(* the same title and the same url.                                        *)
(***************************************************************************)
C19_EnrichmentInputDeduplicated ==
    s_pc \in {"enhance", "done"} =>
        \A i, j \in 1..Len(s_results) :
            (s_results[i].title = s_results[j].title
                /\ s_results[i].url = s_results[j].url) => i = j

(***************************************************************************)
(* C20: in SearchService.search, Brave is called only when a Brave key is  *)
(* configured and fewer than 5 results were collected from LangSearch, and *)
(* it is then asked for numResults minus the number already collected;     *)
(* the open sources are queried only when the keyed tiers together         *)
(* produced zero results.                                                  *)
(***************************************************************************)
RECURSIVE CollectedBefore(_, _)
\* the number of results the calls before the i-th gave
CollectedBefore(calls, i) ==
    IF i <= 1 THEN 0
    ELSE CollectedBefore(calls, i - 1) + calls[i - 1].returned

C20_TierEscalation ==
    \A i \in 1..Len(s_calls) :
        /\ s_calls[i].to = "langSearch" => i = 1 /\ s_langKey
        /\ s_calls[i].to = "brave" =>
              /\ s_braveKey
              /\ CollectedBefore(s_calls, i) < 5
              /\ s_calls[i].count = s_num - CollectedBefore(s_calls, i)
              /\ \A j \in 1..(i - 1) : s_calls[j].to = "langSearch"
        /\ s_calls[i].to = "open" =>
              /\ CollectedBefore(s_calls, i) = 0
              /\ i = Len(s_calls)

C20_Witness ==
    /\ s_pc = "done"
    /\ Len(s_calls) = 2
    /\ s_calls[1] = [to |-> "langSearch", count |-> 15, returned |-> 2]
    /\ s_calls[2].to = "brave"
    /\ s_calls[2].count = 13

(***************************************************************************)
(* C21: between attempts each retry wrapper waits 2^attempt seconds, where *)
(* attempt is the number of the attempt that just failed: 2 seconds after  *)
(* the first failure, 4 seconds after the second, and no wait after the    *)
(* third failure before the fallback is returned; the stage function is    *)
(* never invoked more than 3 times per wrapper call.                       *)
(***************************************************************************)
\* the failed invocations so far that were not the third
FailuresBeforeTheLast ==
    {i \in 1..Len(w_calls) : w_calls[i] = "throw" /\ i < 3}

C21_BackoffDoublesAndStopsAtThree ==
    /\ Len(w_calls) <= 3
    /\ Len(w_waits) = Cardinality(FailuresBeforeTheLast)
    /\ Len(w_waits) >= 1 => w_waits[1] = 2000
    /\ Len(w_waits) >= 2 => w_waits[2] = 4000
    /\ Len(w_waits) <= 2

C21_Witness ==
    /\ w_pc = "returned"
    /\ w_calls = <<"throw", "throw", "throw">>
    /\ w_waits = <<2000, 4000>>
    /\ w_ret.fallback

(***************************************************************************)
(* C22: SearchService.search returns its results in deduplicated input     *)
(* order, the order in which the providers' results were collected, in     *)
(* every branch including the open-source fallback.                        *)
(***************************************************************************)
UrlsOf(list) == [i \in 1..Len(list) |-> list[i].url]

\* the open sources' results in the order they are collected
CollectedFromOpenSources(query, ddg, wiki, arxiv, pubmed) ==
    searchWithDuckDuckGo(query, ddg).value \o searchWithWikipedia(query, wiki).value
        \o searchWithArXiv(query, arxiv).value \o searchWithPubMed(query, pubmed).value

InDedupedInputOrder(collected) ==
    UrlsOf(s_ret) = UrlsOf(SliceTo(KeepFirstPairs(collected, 1), s_num))

C22_ReturnedInCollectionOrder ==
    s_pc = "done" =>
        IF s_via = "keyed"
        THEN InDedupedInputOrder(s_results)
        ELSE \E ddg \in DdgOutcomes, wiki \in WikiOutcomes,
                arxiv \in ArxivOutcomes, pubmed \in PubMedOutcomes :
                InDedupedInputOrder(
                    CollectedFromOpenSources(s_query, ddg, wiki, arxiv, pubmed))

(***************************************************************************)
(* C23: rerankResults never raises: on a transport error, a non-OK status, *)
(* an error code in the payload, or a payload without a results array it   *)
(* returns the first topN candidates in their pre-rerank order with        *)
(* unchanged scores; and in a successful response every entry whose        *)
(* document id does not resolve to a candidate index (missing,             *)
(* non-numeric, or out of range) is mapped to the first candidate.         *)
(***************************************************************************)
RerankDone == p_pc = "done" /\ p_fn = "rerankResults"

\* the reranker was asked: a key is configured and there are candidates
RerankAsked == p_in.langKey /\ Len(p_in.results) > 0

\* id is the decimal text of an index of a candidate
ResolvesToCandidate(id) ==
    \E k \in 0..(Len(p_in.results) - 1) : id = String(k)

FirstCandidates ==
    [i \in 1..(IF p_in.topN < Len(p_in.results) THEN p_in.topN
               ELSE Len(p_in.results)) |-> p_in.results[i]]

SameButScore(a, b) == [a EXCEPT !.score = 0] = [b EXCEPT !.score = 0]

C23_RerankNeverRaisesAndFallsBack ==
    RerankDone =>
        /\ ~p_out.raised
        /\ (RerankAsked /\ p_in.out.kind # "ok") => p_out.value = FirstCandidates
        /\ (RerankAsked /\ p_in.out.kind = "ok") =>
              /\ Len(p_out.value) = Len(p_in.out.entries)
              /\ \A i \in 1..Len(p_in.out.entries) :
                    ~ResolvesToCandidate(p_in.out.entries[i].id) =>
                        SameButScore(p_out.value[i], p_in.results[1])

C23_Witness ==
    /\ RerankDone
    /\ RerankAsked
    /\ Len(p_in.results) = 2
    /\ p_in.out.kind = "ok"
    /\ Len(p_in.out.entries) = 2
    /\ p_in.out.entries[1].id = <<"1">>
    /\ p_in.out.entries[2].id = <<"7">>
    /\ p_out.value[2].url = p_in.results[1].url

(***************************************************************************)
(* C24: in the open-source fan-out, for every subset of sources that fail  *)
(* and for every order in which the four calls complete, the merged list   *)
(* contains exactly the results of the sources that succeeded, each        *)
(* source's results contiguous and in the fixed source order; a failing    *)
(* source never cancels or removes a sibling's results.                    *)
(***************************************************************************)
FanOutDone == p_pc = "done" /\ p_fn = "getRealSearchResults"

RECURSIVE SucceededFrom(_)
\* the results of the sources from the i-th on that succeeded, source by source
SucceededFrom(i) ==
    IF i > Len(OpenSources) THEN <<>>
    ELSE (IF p_in.settled[i].ok THEN p_in.settled[i].value ELSE <<>>)
             \o SucceededFrom(i + 1)

C24_FanOutMergesTheSucceeded ==
    FanOutDone =>
        /\ ~p_out.raised
        /\ p_out.value.merged = SucceededFrom(1)

C24_Witness ==
    /\ FanOutDone
    /\ p_in.order = <<4, 3, 2, 1>>
    /\ ~p_in.settled[1].ok
    /\ p_in.settled[2].ok /\ p_in.settled[3].ok /\ ~p_in.settled[4].ok
    /\ Len(p_in.settled[3].value) >= 1
    /\ Len(p_out.value.merged) >= 2

(***************************************************************************)
(* C25: in LangSearchClient.hybridSearch the web search and the academic   *)
(* search run with per-branch error capture: when exactly one of the two   *)
(* fails, the call still returns the results of the branch that succeeded  *)
(* rather than failing as a whole.                                         *)
(***************************************************************************)
HybridDone == p_pc = "done" /\ p_fn = "hybridSearch"

C25_HybridSurvivesOneBranch ==
    HybridDone =>
        /\ (p_in.web.state = "rejected" /\ p_in.academic.state = "fulfilled") =>
              /\ ~p_out.raised
              /\ p_out.value.academicResults = p_in.academic.value.results
        /\ (p_in.web.state = "fulfilled" /\ p_in.academic.state = "rejected") =>
              /\ ~p_out.raised
              /\ p_out.value.webResults = p_in.web.value.results

(***************************************************************************)
(* C26: enhanceSearchResults preserves the length and order of its input   *)
(* for every combination of per-result fetch outcomes and completion       *)
(* orders: a result whose fetch fails, returns a non-OK status or has no   *)
(* body is returned unchanged; a result whose fetch succeeds has only      *)
(* title, snippet and score (raised by exactly 0.1) changed, with url,     *)
(* domain, published_date and author unchanged.                            *)
(***************************************************************************)
EnhanceDone == p_pc = "done" /\ p_fn = "enhanceSearchResults"

FetchFailed(i) == p_in.settled[i].outcome \in {"throw", "notok", "nobody"}

C26_EnhancePreservesOrderAndFrame ==
    EnhanceDone =>
        /\ ~p_out.raised
        /\ Len(p_out.value) = Len(p_in.results)
        /\ \A i \in 1..Len(p_in.results) :
              /\ FetchFailed(i) => p_out.value[i] = p_in.results[i]
              /\ ~FetchFailed(i) =>
                    /\ p_out.value[i].score = p_in.results[i].score + 10
                    /\ [p_out.value[i] EXCEPT !.title = <<>>, !.snippet = <<>>, !.score = 0]
                          = [p_in.results[i] EXCEPT !.title = <<>>, !.snippet = <<>>,
                                                    !.score = 0]

C26_Witness ==
    /\ EnhanceDone
    /\ Len(p_in.results) = 2
    /\ p_in.order = <<2, 1>>
    /\ p_in.settled[1].outcome = "page"
    /\ p_in.settled[2].outcome = "throw"
    /\ p_out.value[1].title = <<"PageTitle">>
    /\ p_out.value[2] = p_in.results[2]

(***************************************************************************)
(* C27: the synthetic fallback of the search aggregator yields, for every  *)
(* query, exactly 3 placeholder results whose title and url are built from *)
(* the query and whose scores are 0.95, 0.92 and 0.88 in that order, and   *)
(* producing them never fails.                                             *)
(***************************************************************************)
FallbackDone == p_pc = "done" /\ p_fn \in FallbackProducers

C27_ThreePlaceholdersWithFixedScores ==
    FallbackDone =>
        /\ ~p_out.raised
        /\ Len(p_out.value) = 3
        /\ \A i \in 1..Len(p_out.value) :
              /\ Contains(p_out.value[i].title, p_in)
              /\ Contains(p_out.value[i].url, encodeURIComponent(p_in))
        /\ [i \in 1..Len(p_out.value) |-> p_out.value[i].score] = <<95, 92, 88>>

(***************************************************************************)
(* C28: for every academic works endpoint (OpenAlex, Crossref, arXiv,      *)
(* Europe PMC) called with a non-empty query, a non-OK status or network   *)
(* failure of the upstream provider does not produce an HTTP failure       *)
(* response.                                                               *)
(***************************************************************************)
WorksDone == p_pc = "done" /\ p_fn = "GET works"

C28_UpstreamFailureAbsorbed ==
    (WorksDone /\ Truthy(p_in.q) /\ ~IsBlank(p_in.q)
        /\ p_in.upstream.kind \in {"throw", "notok"}) =>
            p_out.value.status < 400

(***************************************************************************)
(* C29: paging arXiv with the same maxResults from start 0, each           *)
(* nextCursor passed back as the next start, against a feed of total       *)
(* records: every record index 0..total-1 is returned exactly once and the *)
(* traversal ends with nextCursor null after finitely many pages, for      *)
(* every maxResults >= 1 including values above 200.                       *)
(***************************************************************************)
PagingOn == p_fn = "arxivSearch pages"

TimesReturned(records, k) == Cardinality({ i \in 1..Len(records) : records[i] = k })

C29_PagingReturnsEveryRecordOnce ==
    PagingOn =>
        /\ p_out.value.pages <= MathMax(1, p_in.total)
        /\ \A k \in 0..(p_in.total - 1) :
              /\ TimesReturned(p_out.value.records, k) <= 1
              /\ p_pc = "done" => TimesReturned(p_out.value.records, k) = 1

(***************************************************************************)
(* C30: for every response the reranker may send (any number of entries,   *)
(* any document ids, repeated or unresolvable), rerankResults returns at   *)
(* most topN results, each of them one of the input candidates, with no    *)
(* input candidate appearing more than once.                               *)
(***************************************************************************)
IsCandidate(result) ==
    \E k \in 1..Len(p_in.results) : SameButScore(result, p_in.results[k])

C30_RerankBoundedAndDistinct ==
    RerankDone =>
        /\ Len(p_out.value) <= p_in.topN
        /\ \A i \in 1..Len(p_out.value) : IsCandidate(p_out.value[i])
        /\ \A i, j \in 1..Len(p_out.value) :
              SameButScore(p_out.value[i], p_out.value[j]) => i = j

====
